---------------------------- MODULE Spec2Model ----------------------------
(***************************************************************************)
(* nicman: interface inventory, ownership resolution and removal engine.   *)
(*                                                                         *)
(* Text is modelled as a sequence of one-character strings, so that        *)
(* starts_with / contains / format! are computed as the code computes      *)
(* them.  A Rust Option is a record whose field "type" is "None" for the   *)
(* empty case; a Rust Result is a record with a field ok.                  *)
(***************************************************************************)
EXTENDS Integers, Sequences, FiniteSets, TLC

VARIABLES
    iface,       \* the NetInterface record the operation works on
    sys,         \* what the operating system answers to the probes
    strategy,    \* Option<RemovalStrategy>: last value of determine_strategy
    log,         \* the OS commands issued by the last operation, in order
    result,      \* what the last operation returned
    warnings,    \* Vec<String> returned by the last check_safety
    interfaces,  \* App::interfaces, the inventory of the last refresh
    screen,      \* App::screen, the screen the event loop shows
    app          \* the other fields of App the event loop reads and writes

vars ==
    <<iface, sys, strategy, log, result, warnings, interfaces, screen, app>>

---------------------------------------------------------------------------
(* Text helpers: str::starts_with, str::contains, u32::to_string (to_string).          *)

StartsWith(s, p) ==
    /\ Len(p) <= Len(s)
    /\ SubSeq(s, 1, Len(p)) = p

Contains(s, p) ==
    \E i \in 1..(Len(s) - Len(p) + 1) : SubSeq(s, i, i + Len(p) - 1) = p

Digit(d) ==
    <<"0", "1", "2", "3", "4", "5", "6", "7", "8", "9">>[d + 1]

RECURSIVE to_string(_)
to_string(n) ==
    IF n < 10 THEN <<Digit(n)>> ELSE to_string(n \div 10) \o <<Digit(n % 10)>>

\* Result and Option values
NoText == <<>>

Ok(v) == [ok |-> TRUE, val |-> v]

Err == [ok |-> FALSE, val |-> NoText]

Some(v) == [type |-> "Some", val |-> v]

None == [type |-> "None", val |-> NoText]

---------------------------------------------------------------------------
(* Interface names and owner data used as inputs.                          *)

N_wg0 == <<"w", "g", "0">>
N_veth1234 == <<"v", "e", "t", "h", "1", "2", "3", "4">>
N_docker0 == <<"d", "o", "c", "k", "e", "r", "0">>
N_tun0 == <<"t", "u", "n", "0">>
N_eth0 == <<"e", "t", "h", "0">>

T_system == <<"s", "y", "s", "t", "e", "m">>
T_abc123 == <<"a", "b", "c", "1", "2", "3">>
T_web == <<"w", "e", "b">>
T_nginx == <<"n", "g", "i", "n", "x">>
T_unit ==
    <<"w", "g", "-", "q", "u", "i", "c", "k", "@", "w", "g", "0", ".",
      "s", "e", "r", "v", "i", "c", "e">>
T_openvpn == <<"o", "p", "e", "n", "v", "p", "n">>
T_wired == <<"W", "i", "r", "e", "d">>
T_uuid == <<"u", "1">>
T_bridge == <<"b", "r", "i", "d", "g", "e">>

\* the label and image of the synthetic owner of the Docker bridges
T_docker_bridge_name == <<"D", "o", "c", "k", "e", "r">>
T_docker_network == 
    <<"d", "o", "c", "k", "e", "r", "-", "n", "e", "t", "w", "o", "r", "k">>

ProcPid == 4242

\* model.rs InterfaceOwner, and None for Option<InterfaceOwner>
NoOwner == [type |-> "None"]

SystemdService(name, status, start_time) ==
    [type |-> "SystemdService", name |-> name, status |-> status,
     start_time |-> start_time]

DockerContainer(id, name, image) ==
    [type |-> "DockerContainer", id |-> id, name |-> name, image |-> image]

Process(pid, name, cmdline) ==
    [type |-> "Process", pid |-> pid, name |-> name, cmdline |-> cmdline]

NetworkManager(connection, uuid) ==
    [type |-> "NetworkManager", connection |-> connection, uuid |-> uuid]

Kernel(module) == [type |-> "Kernel", module |-> module]

UnknownOwner == [type |-> "Unknown"]

\* model.rs RemovalStrategy
RemovalStrategy ==
    {"InterfaceOnly", "StopService", "StopAndDisableService", "StopContainer",
     "KillProcess"}

\* model.rs NetInterface (the fields the engine reads)
\* NetInterface::new gives state Unknown and mtu 1500
NetInterface(name, kind, owner, v4, v6) ==
    [name |-> name, kind |-> kind, state |-> "Unknown",
     mtu |-> <<"1", "5", "0", "0">>, owner |-> owner,
     ipv4_addresses |-> v4, ipv6_addresses |-> v6, ipv4_config |-> None]

---------------------------------------------------------------------------
(* utils/command.rs: one issued command, with whether it exited with       *)
(* success.  execute_command_stdout is Err exactly when ok is FALSE;       *)
(* command_success returns ok.                                             *)

Cmd(program, arg, ok) == [cmd |-> program, arg |-> arg, ok |-> ok]

\* the outcome of Command::output(): the program could not be started, or
\* it ran and left an exit status and its stdout
SpawnFailed == [spawned |-> FALSE, success |-> FALSE, stdout |-> <<>>]

Exited(success, stdout) ==
    [spawned |-> TRUE, success |-> success, stdout |-> stdout]

\* a Result<()> of a removal step together with the commands it issued
Step(l, ok) == [log |-> l, ok |-> ok]

---------------------------------------------------------------------------
(* backend/removal.rs                                                      *)

determine_strategy_swapped(ifc) ==
    CASE ifc.owner.type = "SystemdService" -> "StopService"
      [] ifc.owner.type = "DockerContainer" -> "StopContainer"
      [] ifc.owner.type = "Process" -> "KillProcess"
      [] ifc.owner.type = "NetworkManager" -> "StopAndDisableService"
      [] OTHER -> "InterfaceOnly"

determine_strategy(ifc) ==
    CASE ifc.owner.type = "SystemdService" -> "StopAndDisableService"
      [] ifc.owner.type = "DockerContainer" -> "StopContainer"
      [] ifc.owner.type = "Process" -> "KillProcess"
      [] ifc.owner.type = "NetworkManager" -> "StopService"
      [] OTHER -> "InterfaceOnly"

\* runtime.rs delete_interface: `ip link delete <name>`; the kernel refuses
\* it for a name that does not exist.
delete_interface(name, present, o) ==
    Step(<<Cmd("ip link delete", name, present /\ o.deleteOk)>>,
         present /\ o.deleteOk)

remove_interface_only_absent_ok(name, present, o) ==
    IF ~present THEN Step(<<>>, TRUE) ELSE delete_interface(name, present, o)

remove_interface_only(name, present, o) ==
    delete_interface(name, present, o)

stop_service(ifc, o) ==
    IF ifc.owner.type = "SystemdService"
    THEN Step(<<Cmd("systemctl stop", ifc.owner.name, o.stopOk)>>, o.stopOk)
    ELSE Step(<<>>, TRUE)

stop_and_disable_service(ifc, o) ==
    IF ifc.owner.type = "SystemdService"
    THEN IF ~o.stopOk
         THEN Step(<<Cmd("systemctl stop", ifc.owner.name, FALSE)>>, FALSE)
         ELSE Step(<<Cmd("systemctl stop", ifc.owner.name, TRUE),
                     Cmd("systemctl disable", ifc.owner.name, o.disableOk)>>,
                   o.disableOk)
    ELSE Step(<<>>, TRUE)

stop_container_raises(ifc, o) ==
    IF ifc.owner.type = "DockerContainer"
    THEN IF ifc.owner.id = T_system
         THEN Step(<<>>, TRUE)
         ELSE Step(<<Cmd("docker stop", ifc.owner.id, o.dockerStopOk)>>,
                   o.dockerStopOk)
    ELSE Step(<<>>, TRUE)

stop_container(ifc, o) ==
    IF ifc.owner.type = "DockerContainer"
    THEN IF ifc.owner.id = T_system
         THEN Step(<<>>, TRUE)
         ELSE Step(<<Cmd("docker stop", ifc.owner.id, o.dockerStopOk)>>, TRUE)
    ELSE Step(<<>>, TRUE)

kill_process_no_sigkill(ifc, o) ==
    IF ifc.owner.type = "Process"
    THEN LET pid == to_string(ifc.owner.pid) IN
         IF o.termOk
         THEN Step(<<Cmd("kill", pid, TRUE), Cmd("sleep 1s", pid, TRUE),
                     Cmd("exists /proc/pid", pid, o.procExists)>>, TRUE)
         ELSE Step(<<Cmd("kill", pid, FALSE)>>, TRUE)
    ELSE Step(<<>>, TRUE)

kill_process(ifc, o) ==
    IF ifc.owner.type = "Process"
    THEN LET pid == to_string(ifc.owner.pid) IN
         IF o.termOk
         THEN Step(<<Cmd("kill", pid, TRUE), Cmd("sleep 1s", pid, TRUE),
                     Cmd("exists /proc/pid", pid, o.procExists)>>
                   \o (IF o.procExists
                       THEN <<Cmd("kill -9", pid, o.kill9Ok)>>
                       ELSE <<>>),
                   TRUE)
         ELSE Step(<<Cmd("kill", pid, FALSE)>>, TRUE)
    ELSE Step(<<>>, TRUE)

\* `first?; second`: the second step runs only when the first returned Ok
AndThen(first, second) ==
    IF first.ok THEN Step(first.log \o second.log, second.ok) ELSE first

remove_interface_without_delete(ifc, s, present, o) ==
    CASE s = "InterfaceOnly" -> Step(<<>>, present)
      [] s = "StopService" ->
           AndThen(stop_service(ifc, o),
                   remove_interface_only(ifc.name, present, o))
      [] s = "StopAndDisableService" ->
           AndThen(stop_and_disable_service(ifc, o),
                   remove_interface_only(ifc.name, present, o))
      [] s = "StopContainer" ->
           AndThen(stop_container(ifc, o),
                   remove_interface_only(ifc.name, present, o))
      [] s = "KillProcess" ->
           AndThen(kill_process(ifc, o),
                   remove_interface_only(ifc.name, present, o))

remove_interface(ifc, s, present, o) ==
    CASE s = "InterfaceOnly" ->
           remove_interface_only(ifc.name, present, o)
      [] s = "StopService" ->
           AndThen(stop_service(ifc, o),
                   remove_interface_only(ifc.name, present, o))
      [] s = "StopAndDisableService" ->
           AndThen(stop_and_disable_service(ifc, o),
                   remove_interface_only(ifc.name, present, o))
      [] s = "StopContainer" ->
           AndThen(stop_container(ifc, o),
                   remove_interface_only(ifc.name, present, o))
      [] s = "KillProcess" ->
           AndThen(kill_process(ifc, o),
                   remove_interface_only(ifc.name, present, o))

---------------------------------------------------------------------------
(* backend/runtime.rs: the probes check_safety relies on.                  *)
(* sys.route is the Result of `ip route show default` with the text the    *)
(* regex dev\s+(\S+) captures (empty when nothing matches);                *)
(* sys.ssh_connection is Option<parts of $SSH_CONNECTION>;                 *)
(* sys.addr_show is the Result of `ip addr show dev <name>`.               *)

get_default_route_interface(s) ==
    IF ~s.route.ok THEN Err
    ELSE IF s.route.val = NoText THEN Ok(None) ELSE Ok(Some(s.route.val))

DefaultRouteIs(name, s) ==
    LET r == get_default_route_interface(s) IN
    r.ok /\ r.val.type = "Some" /\ r.val.val = name

is_ssh_interface(name, s) ==
    IF /\ s.ssh_connection.type = "Some"
       /\ Len(s.ssh_connection.val) >= 3
       /\ s.addr_show.ok
    THEN Contains(s.addr_show.val, s.ssh_connection.val[3])
    ELSE DefaultRouteIs(name, s)

\* the three format!-ed messages of check_safety, told apart by their text
Warning(text, name) == [text |-> text, name |-> name]

check_safety_first_only(ifc, s) ==
    IF is_ssh_interface(ifc.name, s)
    THEN <<Warning("ssh", ifc.name)>>
    ELSE IF DefaultRouteIs(ifc.name, s)
    THEN <<Warning("default-route", ifc.name)>>
    ELSE IF ifc.ipv4_addresses # <<>> \/ ifc.ipv6_addresses # <<>>
    THEN <<Warning("addresses", ifc.name)>>
    ELSE <<>>

check_safety(ifc, s) ==
    (IF is_ssh_interface(ifc.name, s)
     THEN <<Warning("ssh", ifc.name)>> ELSE <<>>)
    \o (IF DefaultRouteIs(ifc.name, s)
        THEN <<Warning("default-route", ifc.name)>> ELSE <<>>)
    \o (IF ifc.ipv4_addresses # <<>> \/ ifc.ipv6_addresses # <<>>
        THEN <<Warning("addresses", ifc.name)>> ELSE <<>>)

---------------------------------------------------------------------------
(* Removal engine: the inputs and the operations.                          *)

IP_A == <<"1", "0", ".", "0", ".", "0", ".", "1">>
IP_B == <<"1", "0", ".", "0", ".", "0", ".", "2">>
IP6_A == <<"f", "e", "8", "0", ":", ":", "1">>
CIDR == <<"/", "2", "4">>
INET == <<"i", "n", "e", "t", " ">>

RemovalOwners ==
    {NoOwner, SystemdService(T_unit, "Active", None),
     DockerContainer(T_system, T_docker_bridge_name, T_docker_network),
     DockerContainer(T_abc123, T_web, T_nginx),
     Process(ProcPid, T_openvpn, T_openvpn), NetworkManager(T_wired, T_uuid),
     Kernel(T_bridge), UnknownOwner}

NameOf(owner) ==
    CASE owner.type = "SystemdService" -> N_wg0
      [] owner.type = "DockerContainer" /\ owner.id = T_system -> N_docker0
      [] owner.type = "Process" -> N_tun0
      [] owner.type = "NetworkManager" -> N_eth0
      [] OTHER -> N_veth1234

AddressLists ==
    {<<<<>>, <<>>>>, <<<<IP_A \o CIDR>>, <<>>>>, <<<<>>, <<IP6_A \o CIDR>>>>}

RemovalIfaces ==
    {NetInterface(NameOf(ow), "Unknown", ow, a[1], a[2]) :
        ow \in RemovalOwners, a \in AddressLists}

SshConnections ==
    {None, Some(<<IP_B, <<"5", "0">>>>),
     Some(<<IP_B, <<"5", "0">>, IP_A, <<"2", "2">>>>)}

AddrShows == {Err, Ok(INET \o IP_A \o CIDR), Ok(NoText)}

Routes(name) == {Err, Ok(NoText), Ok(name), Ok(N_eth0 \o <<"9">>)}

\* exit statuses of the commands one remove_interface call issues
Outcomes ==
    [stopOk : BOOLEAN, disableOk : BOOLEAN, dockerStopOk : BOOLEAN,
     termOk : BOOLEAN, procExists : BOOLEAN, kill9Ok : BOOLEAN,
     deleteOk : BOOLEAN]

\* App::new before any key: nothing selected in an empty list, menu at 0
NoApp ==
    [list_state |-> [type |-> "None", val |-> 0], action_menu_state |-> 0,
     should_quit |-> FALSE, run |-> "Running"]

NoResult ==
    [called |-> FALSE, ok |-> FALSE, was_present |-> FALSE, val |-> None]

Last(l) == l[Len(l)]

\* the probes of check_safety are not consulted by the removal itself
QuietProbes(present) ==
    [present |-> present, ssh_connection |-> None, addr_show |-> Err,
     route |-> Err]

InitRemoval ==
    /\ iface \in RemovalIfaces
    /\ sys = QuietProbes(TRUE)
    /\ strategy = None
    /\ log = <<>>
    /\ result = NoResult
    /\ warnings = None
    /\ interfaces = <<>>
    /\ screen = "Main"
    /\ app = NoApp

\* the confirmation dialog and delete_selected_interface compute the plan
DetermineStrategy ==
    /\ strategy' = Some(determine_strategy(iface))
    /\ UNCHANGED <<iface, sys, log, result, warnings, interfaces, screen>>
    /\ UNCHANGED app

\* ui.rs delete_selected_interface: remove_interface(&iface, &strategy)
RemoveInterface ==
    /\ strategy.type = "Some"
    /\ \E o \in Outcomes :
         LET r == remove_interface(iface, strategy.val, sys.present, o)
             deleted == /\ r.log # <<>>
                        /\ Last(r.log).cmd = "ip link delete"
                        /\ Last(r.log).ok
         IN
         /\ log' = r.log
         /\ result' = [called |-> TRUE, ok |-> r.ok,
                       was_present |-> sys.present, val |-> None]
         /\ sys' = [sys EXCEPT !.present = sys.present /\ ~deleted]
    /\ UNCHANGED <<iface, strategy, warnings, interfaces, screen>>
    /\ UNCHANGED app

NextRemoval == DetermineStrategy \/ RemoveInterface

SpecRemoval == InitRemoval /\ [][NextRemoval]_vars

InitSafety ==
    /\ iface \in RemovalIfaces
    /\ sys \in {[present |-> TRUE, ssh_connection |-> c, addr_show |-> a,
                 route |-> r] :
                  c \in SshConnections, a \in AddrShows,
                  r \in Routes(iface.name)}
    /\ strategy = None
    /\ log = <<>>
    /\ result = NoResult
    /\ warnings = None
    /\ interfaces = <<>>
    /\ screen = "Main"
    /\ app = NoApp

\* ui.rs draw_confirm_delete: check_safety(iface)
CheckSafety ==
    /\ warnings' = Some(check_safety(iface, sys))
    /\ UNCHANGED <<iface, sys, strategy, log, result, interfaces, screen>>
    /\ UNCHANGED app

NextSafety == CheckSafety

SpecSafety == InitSafety /\ [][NextSafety]_vars

---------------------------------------------------------------------------
(* backend/runtime.rs: kind classification.                                *)
(* sys holds the marker files of /sys/class/net/<name>/: uevent, tun_flags *)
(* and type are Result<text> of fs::read_to_string, bridge and device are  *)
(* whether fs::metadata succeeds.                                          *)

IsSpace(c) == c \in {" ", "\n", "\t"}

RECURSIVE TrimStart(_)
TrimStart(s) ==
    IF s # <<>> /\ IsSpace(Head(s)) THEN TrimStart(Tail(s)) ELSE s

RECURSIVE TrimEnd(_)
TrimEnd(s) ==
    IF s # <<>> /\ IsSpace(s[Len(s)])
    THEN TrimEnd(SubSeq(s, 1, Len(s) - 1)) ELSE s

\* str::trim
Trim(s) == TrimEnd(TrimStart(s))

IsDigit(c) == c \in {"0", "1", "2", "3", "4", "5", "6", "7", "8", "9"}

DigitValue(c) ==
    CHOOSE d \in 0..9 : Digit(d) = c

RECURSIVE StripZeros(_)
StripZeros(s) ==
    IF Len(s) > 1 /\ Head(s) = "0" THEN StripZeros(Tail(s)) ELSE s

\* s <= t for two digit texts of the same length
RECURSIVE DigitsLeq(_, _)
DigitsLeq(s, t) ==
    IF s = <<>> THEN TRUE
    ELSE IF Head(s) # Head(t) THEN DigitValue(Head(s)) < DigitValue(Head(t))
    ELSE DigitsLeq(Tail(s), Tail(t))

\* u32::MAX = 4294967295, as decimal text (numbers of this size are kept
\* as their canonical digit text)
U32MaxText == <<"4", "2", "9", "4", "9", "6", "7", "2", "9", "5">>

FitsU32(digits) ==
    LET c == StripZeros(digits) IN
    \/ Len(c) < Len(U32MaxText)
    \/ Len(c) = Len(U32MaxText) /\ DigitsLeq(c, U32MaxText)

\* str::parse::<u32>: Some(value) for a non-empty run of digits that fits
parse_u32(s) ==
    IF s # <<>> /\ (\A i \in DOMAIN s : IsDigit(s[i])) /\ FitsU32(s)
    THEN Some(StripZeros(s))
    ELSE None

N_lo == <<"l", "o">>
N_br_0_1 == <<"b", "r", "-", "0", ".", "1">>
N_br0 == <<"b", "r", "0">>
N_wg0_1 == <<"w", "g", "0", ".", "1">>
N_veth0_5 == <<"v", "e", "t", "h", "0", ".", "5">>
N_eth0_10 == <<"e", "t", "h", "0", ".", "1", "0">>
N_tap0 == <<"t", "a", "p", "0">>
N_vpn0 == <<"v", "p", "n", "0">>
T_wireguard == <<"w", "i", "r", "e", "g", "u", "a", "r", "d">>
T_devtype == <<"D", "E", "V", "T", "Y", "P", "E", "=">>

detect_interface_kind_dot_first(name, f) ==
    IF name = N_lo THEN "Loopback"
    ELSE IF Contains(name, <<".">>) THEN "Vlan"
    ELSE IF name = N_docker0 \/ StartsWith(name, <<"b", "r", "-">>)
    THEN "Docker"
    ELSE IF /\ StartsWith(name, <<"w", "g">>)
            /\ f.uevent.ok
            /\ Contains(f.uevent.val, T_wireguard)
    THEN "WireGuard"
    ELSE IF StartsWith(name, <<"v", "e", "t", "h">>) THEN "Veth"
    ELSE IF f.bridge THEN "Bridge"
    ELSE IF f.tun_flags.ok /\ Trim(f.tun_flags.val) \in {<<"0", "x", "1">>, <<"1">>}
    THEN "Tun"
    ELSE IF f.tun_flags.ok /\ Trim(f.tun_flags.val) \in {<<"0", "x", "2">>, <<"2">>}
    THEN "Tap"
    ELSE IF StartsWith(name, <<"t", "u", "n">>) THEN "Tun"
    ELSE IF StartsWith(name, <<"t", "a", "p">>) THEN "Tap"
    ELSE IF /\ f.type.ok
            /\ parse_u32(Trim(f.type.val)).val = <<"1">>
            /\ f.device
    THEN "Physical"
    ELSE "Unknown"

detect_interface_kind(name, f) ==
    IF name = N_lo THEN "Loopback"
    ELSE IF name = N_docker0 \/ StartsWith(name, <<"b", "r", "-">>)
    THEN "Docker"
    ELSE IF /\ StartsWith(name, <<"w", "g">>)
            /\ f.uevent.ok
            /\ Contains(f.uevent.val, T_wireguard)
    THEN "WireGuard"
    ELSE IF StartsWith(name, <<"v", "e", "t", "h">>) THEN "Veth"
    ELSE IF Contains(name, <<".">>) THEN "Vlan"
    ELSE IF f.bridge THEN "Bridge"
    ELSE IF f.tun_flags.ok /\ Trim(f.tun_flags.val) \in {<<"0", "x", "1">>, <<"1">>}
    THEN "Tun"
    ELSE IF f.tun_flags.ok /\ Trim(f.tun_flags.val) \in {<<"0", "x", "2">>, <<"2">>}
    THEN "Tap"
    ELSE IF StartsWith(name, <<"t", "u", "n">>) THEN "Tun"
    ELSE IF StartsWith(name, <<"t", "a", "p">>) THEN "Tap"
    ELSE IF /\ f.type.ok
            /\ parse_u32(Trim(f.type.val)).val = <<"1">>
            /\ f.device
    THEN "Physical"
    ELSE "Unknown"

KindNames ==
    {N_lo, N_docker0, N_br_0_1, N_br0, N_wg0, N_wg0_1, N_veth1234, N_veth0_5,
     N_eth0_10, N_tun0, N_tap0, N_eth0, N_vpn0}

Uevents == {Err, Ok(T_devtype \o T_wireguard \o <<"\n">>), Ok(T_devtype)}

TunFlags ==
    {Err, Ok(<<"0", "x", "1", "\n">>), Ok(<<"1">>), Ok(<<"0", "x", "2", "\n">>),
     Ok(<<"2">>), Ok(<<"0", "x", "1", "0", "0", "2", "\n">>)}

TypeFiles == {Err, Ok(<<"1", "\n">>), Ok(<<"7", "7", "2", "\n">>), Ok(<<"x">>)}

MarkerFiles ==
    [uevent : Uevents, bridge : BOOLEAN, tun_flags : TunFlags,
     type : TypeFiles, device : BOOLEAN]

InitKind ==
    /\ iface \in {NetInterface(n, "Unknown", NoOwner, <<>>, <<>>) : n \in KindNames}
    /\ sys \in MarkerFiles
    /\ strategy = None
    /\ log = <<>>
    /\ result = NoResult
    /\ warnings = None
    /\ interfaces = <<>>
    /\ screen = "Main"
    /\ app = NoApp

\* parse_interface_from_link: kind = detect_interface_kind(&name)?, then
\* NetInterface::new(name, kind)
ClassifyKind ==
    /\ ~result.called
    /\ iface' = [iface EXCEPT !.kind = detect_interface_kind(iface.name, sys)]
    /\ result' = [result EXCEPT !.called = TRUE, !.ok = TRUE]
    /\ UNCHANGED <<sys, strategy, log, warnings, interfaces, screen>>
    /\ UNCHANGED app

NextKind == ClassifyKind

SpecKind == InitKind /\ [][NextKind]_vars

---------------------------------------------------------------------------
(* backend/owner_detection.rs                                              *)
(* sys holds the answers of the tools the detectors consult:               *)
(*   docker_version, nmcli_version : whether `<tool> --version` succeeds   *)
(*   docker_ps      : Result<lines>, a line being its tab-separated parts  *)
(*   docker_inspect : container id -> Result<text> of inspect .State.Pid   *)
(*   nsenter_links  : pid text -> Result<text> of nsenter ... ip link show *)
(*   systemctl_status : unit -> Result<text> of systemctl status           *)
(*   tun_flags      : Result of reading /sys/class/net/<name>/tun_flags    *)
(*   procs          : Result<entries of /proc>, in read_dir order          *)
(*   nmcli_show     : Result<lines> of nmcli device show, as key/value     *)
(*   lsmod          : Result<text>                                         *)

\* a tool asked about something it was given no answer for exits non-zero
Lookup(f, k) == IF k \in DOMAIN f THEN f[k] ELSE Err

T_eth0 == N_eth0
T_eth1 == <<"e", "t", "h", "1">>
T_br_prefix == <<"b", "r", "-">>
T_service == 
    <<".", "s", "e", "r", "v", "i", "c", "e">>
T_wg_quick == 
    <<"w", "g", "-", "q", "u", "i", "c", "k", "@">>
T_openvpn_at == 
    <<"o", "p", "e", "n", "v", "p", "n", "@">>
T_openvpn_client == 
    <<"o", "p", "e", "n", "v", "p", "n", "-", "c", "l", "i", "e", "n",
      "t", "@">>
T_netctl == 
    <<"n", "e", "t", "c", "t", "l", "@">>
T_active == 
    <<"A", "c", "t", "i", "v", "e", ":", " ", "a", "c", "t", "i", "v", "e">>
T_inactive == 
    <<"A", "c", "t", "i", "v", "e", ":", " ", "i", "n", "a", "c", "t",
      "i", "v", "e">>
T_failed == 
    <<"A", "c", "t", "i", "v", "e", ":", " ", "f", "a", "i", "l", "e", "d">>
T_since == <<"s", "i", "n", "c", "e">>
T_dev_net_tun == 
    <<"/", "d", "e", "v", "/", "n", "e", "t", "/", "t", "u", "n">>
T_pid_dash == <<"p", "i", "d", "-">>
T_8021q == <<"8", "0", "2", "1", "q">>

container_has_veth(container_id, s) ==
    LET inspect == Lookup(s.docker_inspect, container_id) IN
    IF ~inspect.ok THEN FALSE
    ELSE LET pid == parse_u32(Trim(inspect.val)) IN
         IF pid.type = "None" THEN FALSE
         ELSE LET links == Lookup(s.nsenter_links, pid.val) IN
              IF ~links.ok THEN FALSE
              ELSE Contains(links.val, T_eth0) \/ Contains(links.val, T_eth1)

RECURSIVE FirstContainerWithVeth(_, _)
FirstContainerWithVeth(containers, s) ==
    IF containers = <<>> THEN NoOwner
    ELSE LET c == Head(containers) IN
         IF container_has_veth(c[1], s)
         THEN DockerContainer(c[1], c[2], c[3])
         ELSE FirstContainerWithVeth(Tail(containers), s)

check_docker_container_always_heuristic(iface_name, kind, s) ==
    IF kind \notin {"Docker", "Veth"} THEN NoOwner
    ELSE IF ~s.docker_version THEN NoOwner
    ELSE IF iface_name = N_docker0 \/ StartsWith(iface_name, T_br_prefix)
    THEN DockerContainer(T_system, T_docker_bridge_name, T_docker_network)
    ELSE IF ~s.docker_ps.ok THEN NoOwner
    ELSE LET HasThreeParts(line) == Len(line) >= 3 IN
         FirstContainerWithVeth(SelectSeq(s.docker_ps.val, HasThreeParts), s)

check_docker_container(iface_name, kind, s) ==
    IF kind \notin {"Docker", "Veth"} THEN NoOwner
    ELSE IF ~s.docker_version THEN NoOwner
    ELSE IF iface_name = N_docker0 \/ StartsWith(iface_name, T_br_prefix)
    THEN DockerContainer(T_system, T_docker_bridge_name, T_docker_network)
    ELSE IF ~s.docker_ps.ok THEN NoOwner
    ELSE LET HasThreeParts(line) == Len(line) >= 3
             containers == SelectSeq(s.docker_ps.val, HasThreeParts)
         IN
         IF Len(containers) = 1
         THEN DockerContainer(containers[1][1], containers[1][2],
                              containers[1][3])
         ELSE FirstContainerWithVeth(containers, s)

\* regex since\s+(.+?); : the leftmost "since", the longest run of white
\* space after it that still leaves a match, then the shortest non-empty
\* text without a line break that a ';' follows
SinceGroup(out, i, w) ==
    LET g == i + Len(T_since) + w
        ends == {e \in (g + 1)..Len(out) : out[e] = ";"}
    IN
    IF ends = {} THEN None
    ELSE LET e == CHOOSE x \in ends : \A y \in ends : x <= y IN
         IF \E k \in g..(e - 1) : out[k] = "\n" THEN None
         ELSE Some(SubSeq(out, g, e - 1))

SinceAt(out, i) ==
    LET after == i + Len(T_since)
        widths == {w \in 1..(Len(out) - after + 1) :
                      /\ \A k \in after..(after + w - 1) : IsSpace(out[k])
                      /\ SinceGroup(out, i, w).type = "Some"}
    IN
    IF i + Len(T_since) - 1 > Len(out)
          \/ SubSeq(out, i, i + Len(T_since) - 1) # T_since
          \/ widths = {}
    THEN None
    ELSE SinceGroup(out, i, CHOOSE w \in widths : \A v \in widths : v <= w)

extract_start_time(output) ==
    LET starts == {i \in DOMAIN output : SinceAt(output, i).type = "Some"} IN
    IF starts = {} THEN None
    ELSE LET i == CHOOSE x \in starts : \A y \in starts : x <= y IN
         Some(Trim(SinceAt(output, i).val))

check_service_active_only(service_name, s) ==
    LET output == Lookup(s.systemctl_status, service_name) IN
    IF ~output.ok \/ ~Contains(output.val, T_active) THEN NoOwner
    ELSE SystemdService(service_name, "Active",
                        extract_start_time(output.val))

check_service(service_name, s) ==
    LET output == Lookup(s.systemctl_status, service_name) IN
    IF ~output.ok THEN NoOwner
    ELSE SystemdService(
             service_name,
             IF Contains(output.val, T_active) THEN "Active"
             ELSE IF Contains(output.val, T_inactive) THEN "Inactive"
             ELSE IF Contains(output.val, T_failed) THEN "Failed"
             ELSE "Unknown",
             extract_start_time(output.val))

RECURSIVE FirstService(_, _)
FirstService(names, s) ==
    IF names = <<>> THEN NoOwner
    ELSE LET o == check_service(Head(names), s) IN
         IF o # NoOwner THEN o ELSE FirstService(Tail(names), s)

check_systemd_service(iface_name, kind, s) ==
    LET service_patterns ==
            <<T_wg_quick \o iface_name \o T_service,
              T_openvpn_at \o iface_name \o T_service,
              T_openvpn_client \o iface_name \o T_service,
              T_netctl \o iface_name \o T_service>>
        first == IF kind = "WireGuard"
                 THEN check_service(T_wg_quick \o iface_name \o T_service, s)
                 ELSE NoOwner
    IN
    IF first # NoOwner THEN first ELSE FirstService(service_patterns, s)

\* utils/command.rs: Err when the program could not be started and when
\* it exited with a failure status, Ok(stdout) otherwise
execute_command_stdout(out) ==
    IF out.spawned /\ out.success THEN Ok(out.stdout) ELSE Err

process_owns_interface(entry, iface_name) ==
    LET output == execute_command_stdout(entry.ns_query) IN
    IF output.ok THEN Contains(output.val, iface_name)
    ELSE TRUE

RECURSIVE DecimalValue(_)
DecimalValue(s) ==
    IF s = <<>> THEN 0
    ELSE 10 * DecimalValue(SubSeq(s, 1, Len(s) - 1)) + DigitValue(s[Len(s)])

\* entry is the /proc/<pid> directory: fd (Result<link targets>), the
\* process's answer to the namespace-scoped link query, comm and cmdline
check_process_tun(pid, entry, iface_name) ==
    IF /\ entry.fd.ok
       /\ \E k \in DOMAIN entry.fd.val : Contains(entry.fd.val[k], T_dev_net_tun)
       /\ process_owns_interface(entry, iface_name)
    THEN Process(DecimalValue(pid),
                 IF entry.comm.ok THEN Trim(entry.comm.val)
                 ELSE T_pid_dash \o pid,
                 IF entry.cmdline.ok THEN Trim(entry.cmdline.val) ELSE NoText)
    ELSE NoOwner

RECURSIVE FirstTunProcess(_, _)
FirstTunProcess(entries, iface_name) ==
    IF entries = <<>> THEN NoOwner
    ELSE LET entry == Head(entries)
             pid == parse_u32(entry.file_name)
             o == IF pid.type = "Some"
                  THEN check_process_tun(pid.val, entry, iface_name)
                  ELSE NoOwner
         IN
         IF o # NoOwner THEN o
         ELSE FirstTunProcess(Tail(entries), iface_name)

check_process_fd(iface_name, s) ==
    IF ~s.tun_flags.ok THEN NoOwner
    ELSE IF ~s.procs.ok THEN NoOwner
    ELSE FirstTunProcess(s.procs.val, iface_name)

\* regex KEY:\s+(.+) over the key/value lines of nmcli
NmField(lines, key) ==
    LET hits == {k \in DOMAIN lines :
                    lines[k].key = key /\ Trim(lines[k].val) # NoText}
    IN
    IF hits = {} THEN None
    ELSE Some(Trim(lines[CHOOSE k \in hits : \A j \in hits : k <= j].val))

check_network_manager(iface_name, s) ==
    IF ~s.nmcli_version THEN NoOwner
    ELSE IF ~s.nmcli_show.ok THEN NoOwner
    ELSE IF ~\E k \in DOMAIN s.nmcli_show.val :
                 s.nmcli_show.val[k].key = "GENERAL.CONNECTION"
    THEN NoOwner
    ELSE LET connection == NmField(s.nmcli_show.val, "GENERAL.CONNECTION")
             uuid == NmField(s.nmcli_show.val, "GENERAL.CON-UUID")
         IN
         IF connection.type = "Some" /\ uuid.type = "Some"
         THEN NetworkManager(connection.val, uuid.val)
         ELSE NoOwner

check_kernel_module_raises(kind, s) ==
    IF kind \notin {"Bridge", "Vlan", "WireGuard"} THEN NoOwner
    ELSE LET module == CASE kind = "Bridge" -> T_bridge
                         [] kind = "Vlan" -> T_8021q
                         [] kind = "WireGuard" -> T_wireguard
         IN
         IF ~s.lsmod.ok THEN [type |-> "Error"]
         ELSE IF Contains(s.lsmod.val, module) THEN Kernel(module)
         ELSE NoOwner

check_kernel_module_any_kind(kind, s) ==
    LET module == CASE kind = "Vlan" -> T_8021q
                    [] kind = "WireGuard" -> T_wireguard
                    [] OTHER -> T_bridge
    IN
    IF s.lsmod.ok /\ Contains(s.lsmod.val, module) THEN Kernel(module)
    ELSE NoOwner

check_kernel_module(kind, s) ==
    IF kind \notin {"Bridge", "Vlan", "WireGuard"} THEN NoOwner
    ELSE LET module == CASE kind = "Bridge" -> T_bridge
                         [] kind = "Vlan" -> T_8021q
                         [] kind = "WireGuard" -> T_wireguard
         IN
         IF s.lsmod.ok /\ Contains(s.lsmod.val, module) THEN Kernel(module)
         ELSE NoOwner

\* the detectors in the order detect consults them
Detectors == <<"container", "service", "process", "connection", "module">>

RunDetector(d, ifc, s) ==
    CASE d = "container" -> check_docker_container(ifc.name, ifc.kind, s)
      [] d = "service" -> check_systemd_service(ifc.name, ifc.kind, s)
      [] d = "process" -> check_process_fd(ifc.name, s)
      [] d = "connection" -> check_network_manager(ifc.name, s)
      [] d = "module" -> check_kernel_module(ifc.kind, s)

\* Option::or_else: the closure runs only when the value so far is None
OrElse(sofar, d, ifc, s) ==
    IF sofar.owner # NoOwner THEN sofar
    ELSE [owner |-> RunDetector(d, ifc, s), ran |-> Append(sofar.ran, d)]

detect_service_first(ifc, s) ==
    OrElse(OrElse(OrElse(OrElse(OrElse([owner |-> NoOwner, ran |-> <<>>],
        "service", ifc, s), "container", ifc, s), "process", ifc, s),
        "connection", ifc, s), "module", ifc, s)

detect(ifc, s) ==
    OrElse(OrElse(OrElse(OrElse(OrElse([owner |-> NoOwner, ran |-> <<>>],
        "container", ifc, s), "service", ifc, s), "process", ifc, s),
        "connection", ifc, s), "module", ifc, s)

---------------------------------------------------------------------------
(* Ownership resolution: the inputs and the operation.                     *)

T_def456 == <<"d", "e", "f", "4", "5", "6">>
T_db == <<"d", "b">>
T_postgres == <<"p", "g">>
T_pid77 == <<"7", "7">>
T_pid88 == <<"8", "8">>
T_status_active == 
    <<"A", "c", "t", "i", "v", "e", ":", " ", "a", "c", "t", "i", "v",
      "e", " ", "(", "r", "u", "n", "n", "i", "n", "g", ")", " ",
      "s", "i", "n", "c", "e", " ", "M", "o", "n", " ", "2", "0",
      "2", "4", "-", "0", "1", "-", "0", "1", " ", "1", "0", ":",
      "0", "0", ":", "0", "0", " ", "U", "T", "C", ";", " ", "1",
      "h", " ", "a", "g", "o", "\n">>
T_status_inactive == 
    <<"A", "c", "t", "i", "v", "e", ":", " ", "i", "n", "a", "c", "t",
      "i", "v", "e", " ", "(", "d", "e", "a", "d", ")", "\n">>
T_status_failed == 
    <<"A", "c", "t", "i", "v", "e", ":", " ", "f", "a", "i", "l", "e",
      "d", " ", "(", "R", "e", "s", "u", "l", "t", ":", " ", "e",
      "x", "i", "t", "-", "c", "o", "d", "e", ")", " ", "s", "i",
      "n", "c", "e", " ", "T", "u", "e", ";", " ", "2", "m", "i",
      "n", " ", "a", "g", "o", "\n">>
T_status_other ==
    <<"L", "o", "a", "d", "e", "d", ":", " ", "m", "a", "s", "k",
     "e", "d", " ", "(", "R", "e", "a", "s", "o", "n", ":", " ", "U",
     "n", "i", "t", " ", "i", "s", " ", "m", "a", "s", "k", "e", "d",
     ".", ")", "\n">>
T_link_lo == 
    <<"1", ":", " ", "l", "o", ":", " ", "<", "L", "O", "O", "P", "B",
      "A", "C", "K", ",", "U", "P", ">">>
T_link_eth0 == 
    <<"1", ":", " ", "l", "o", ":", " ", "<", "L", "O", "O", "P", "B",
      "A", "C", "K", ",", "U", "P", ">", "\n", "5", ":", " ", "e",
      "t", "h", "0", "@", "i", "f", "6", ":", " ", "<", "U", "P", ">">>
T_lsmod == 
    <<"w", "i", "r", "e", "g", "u", "a", "r", "d", " ", "1", "\n", "b",
      "r", "i", "d", "g", "e", " ", "2", "\n", "8", "0", "2", "1",
      "q", " ", "3", "\n">>
T_lsmod_other == 
    <<"e", "x", "t", "4", " ", "1", "\n">>

DetectIfaces ==
    {NetInterface(N_docker0, "Docker", NoOwner, <<>>, <<>>),
     NetInterface(N_veth1234, "Veth", NoOwner, <<>>, <<>>),
     NetInterface(N_wg0, "WireGuard", NoOwner, <<>>, <<>>),
     NetInterface(N_tun0, "Tun", NoOwner, <<>>, <<>>),
     NetInterface(N_br0, "Bridge", NoOwner, <<>>, <<>>),
     NetInterface(N_eth0_10, "Vlan", NoOwner, <<>>, <<>>),
     NetInterface(N_eth0, "Physical", NoOwner, <<>>, <<>>)}

Container1 == <<T_abc123, T_web, T_nginx>>
Container2 == <<T_def456, T_db, T_postgres>>

InspectBoth ==
    (T_abc123 :> Ok(T_pid77 \o <<"\n">>)) @@ (T_def456 :> Ok(T_pid88 \o <<"\n">>))

DockerWorlds ==
    {[docker_version |-> FALSE, docker_ps |-> Ok(<<Container1>>),
      docker_inspect |-> <<>>, nsenter_links |-> <<>>],
     [docker_version |-> TRUE, docker_ps |-> Err,
      docker_inspect |-> <<>>, nsenter_links |-> <<>>],
     [docker_version |-> TRUE, docker_ps |-> Ok(<<>>),
      docker_inspect |-> <<>>, nsenter_links |-> <<>>],
     [docker_version |-> TRUE, docker_ps |-> Ok(<<<<T_web>>, Container1>>),
      docker_inspect |-> <<>>, nsenter_links |-> <<>>],
     [docker_version |-> TRUE, docker_ps |-> Ok(<<Container1, Container2>>),
      docker_inspect |-> InspectBoth,
      nsenter_links |-> (T_pid77 :> Ok(T_link_lo)) @@ (T_pid88 :> Ok(T_link_eth0))],
     [docker_version |-> TRUE, docker_ps |-> Ok(<<Container1, Container2>>),
      docker_inspect |-> (T_abc123 :> Ok(T_web)), nsenter_links |-> <<>>]}

SystemdWorlds(name) ==
    {<<>>,
     (T_wg_quick \o name \o T_service) :> Ok(T_status_active),
     (T_openvpn_at \o name \o T_service) :> Ok(T_status_inactive),
     ((T_wg_quick \o name \o T_service) :> Ok(T_status_failed))
         @@ ((T_netctl \o name \o T_service) :> Ok(T_status_active)),
     ((T_wg_quick \o name \o T_service) :> Ok(T_status_inactive))
         @@ ((T_openvpn_at \o name \o T_service) :> Ok(T_status_active)),
     (T_wg_quick \o name \o T_service) :> Ok(T_status_other)}

ProcEntry(file_name, fd, ns_query, comm) ==
    [file_name |-> file_name, fd |-> fd, ns_query |-> ns_query,
     comm |-> comm, cmdline |-> comm]

T_pid4242 == <<"4", "2", "4", "2">>
T_pid100 == <<"1", "0", "0">>
T_self == <<"s", "e", "l", "f">>
T_socket == <<"s", "o", "c", "k", "e", "t", ":", "[", "1", "]">>

ProcWorlds(name) ==
    {[tun_flags |-> Err,
      procs |-> Ok(<<ProcEntry(T_pid4242, Ok(<<T_dev_net_tun>>), SpawnFailed,
                               Ok(T_openvpn \o <<"\n">>))>>)],
     [tun_flags |-> Ok(<<"0", "x", "1", "\n">>), procs |-> Err],
     [tun_flags |-> Ok(<<"0", "x", "1", "\n">>),
      procs |-> Ok(<<ProcEntry(T_self, Err, SpawnFailed, Err),
                     ProcEntry(T_pid4242, Ok(<<T_socket, T_dev_net_tun>>),
                               SpawnFailed, Ok(T_openvpn \o <<"\n">>))>>)],
     [tun_flags |-> Ok(<<"0", "x", "1", "\n">>),
      procs |-> Ok(<<ProcEntry(T_pid100, Ok(<<T_dev_net_tun>>),
                               Exited(TRUE, T_link_lo), Ok(T_web)),
                     ProcEntry(T_pid4242, Ok(<<T_dev_net_tun>>),
                               Exited(TRUE, <<"7", ":", " ">> \o name \o <<":">>),
                               Err)>>)],
     [tun_flags |-> Ok(<<"0", "x", "1", "\n">>),
      procs |-> Ok(<<ProcEntry(T_pid100, Ok(<<T_socket>>),
                               Exited(TRUE, <<"7", ":", " ">> \o name \o <<":">>),
                               Ok(T_web)),
                     ProcEntry(T_pid77, Ok(<<T_dev_net_tun>>),
                               Exited(FALSE, NoText), Ok(T_web)),
                     ProcEntry(T_pid4242, Ok(<<T_dev_net_tun>>),
                               Exited(TRUE, <<"7", ":", " ">> \o name \o <<":">>),
                               Ok(T_openvpn \o <<"\n">>))>>)]}

NmLine(key, val) == [key |-> key, val |-> val]

NmWorlds ==
    {[nmcli_version |-> FALSE, nmcli_show |-> Err],
     [nmcli_version |-> TRUE, nmcli_show |-> Err],
     [nmcli_version |-> TRUE,
      nmcli_show |-> Ok(<<NmLine("GENERAL.DEVICE", <<" ">> \o N_eth0)>>)],
     [nmcli_version |-> TRUE,
      nmcli_show |-> Ok(<<NmLine("GENERAL.DEVICE", <<" ">> \o N_eth0),
                          NmLine("GENERAL.CONNECTION", <<" ", " ">> \o T_wired),
                          NmLine("GENERAL.CON-UUID", <<" ">> \o T_uuid)>>)]}

Lsmods == {Err, Ok(T_lsmod), Ok(T_lsmod_other)}

DetectWorlds(name) ==
    {[docker_version |-> d.docker_version, docker_ps |-> d.docker_ps,
      docker_inspect |-> d.docker_inspect, nsenter_links |-> d.nsenter_links,
      systemctl_status |-> u, tun_flags |-> p.tun_flags, procs |-> p.procs,
      nmcli_version |-> n.nmcli_version, nmcli_show |-> n.nmcli_show,
      lsmod |-> k] :
        d \in DockerWorlds, u \in SystemdWorlds(name), p \in ProcWorlds(name),
        n \in NmWorlds, k \in Lsmods}

InitDetect ==
    /\ iface \in DetectIfaces
    /\ sys \in DetectWorlds(iface.name)
    /\ strategy = None
    /\ log = <<>>
    /\ result = NoResult
    /\ warnings = None
    /\ interfaces = <<>>
    /\ screen = "Main"
    /\ app = NoApp

\* runtime.rs list_interfaces: iface.owner = OwnerDetector::detect(iface)
Detect ==
    /\ ~result.called
    /\ LET r == detect(iface, sys) IN
       /\ iface' = [iface EXCEPT !.owner = r.owner]
       /\ log' = r.ran
    /\ result' = [result EXCEPT !.called = TRUE, !.ok = TRUE]
    /\ UNCHANGED <<sys, strategy, warnings, interfaces, screen>>
    /\ UNCHANGED app

NextDetect == Detect

SpecDetect == InitDetect /\ [][NextDetect]_vars

---------------------------------------------------------------------------
(* backend/runtime.rs: prefix_to_netmask.                                  *)
(* A u32 is its 32 bits, most significant first, so that the shift loses   *)
(* the bits it loses in the code.                                          *)

U8Max == 255

\* the longest IPv4 prefix
MaxPrefix == 32

AllOnes == [i \in 1..32 |-> 1]

AllZeros == [i \in 1..32 |-> 0]

\* u32 << k for k in 0..31
ShiftLeft(bits, k) == [i \in 1..32 |-> IF i + k <= 32 THEN bits[i + k] ELSE 0]

\* (mask >> (24 - 8 * (n - 1))) & 0xFF for n in 1..4
RECURSIVE BitsValue(_)
BitsValue(bits) ==
    IF bits = <<>> THEN 0
    ELSE 2 * BitsValue(SubSeq(bits, 1, Len(bits) - 1)) + bits[Len(bits)]

Octet(bits, n) == BitsValue(SubSeq(bits, 8 * n - 7, 8 * n))

\* format!("{}.{}.{}.{}", ...)
Dotted(a, b, c, d) ==
    to_string(a) \o <<".">> \o to_string(b) \o <<".">> \o to_string(c)
        \o <<".">> \o to_string(d)

prefix_to_netmask_shift_right(prefix) ==
    IF prefix > 32 THEN Dotted(255, 255, 255, 255)
    ELSE LET mask == IF prefix = 0 THEN AllZeros
                     ELSE [i \in 1..32 |-> IF i > 32 - prefix THEN 1 ELSE 0]
         IN Dotted(Octet(mask, 1), Octet(mask, 2), Octet(mask, 3),
                   Octet(mask, 4))

prefix_to_netmask(prefix) ==
    IF prefix > 32 THEN Dotted(255, 255, 255, 255)
    ELSE LET mask == IF prefix = 0 THEN AllZeros
                     ELSE ShiftLeft(AllOnes, 32 - prefix)
         IN Dotted(Octet(mask, 1), Octet(mask, 2), Octet(mask, 3),
                   Octet(mask, 4))

InitNetmask ==
    /\ iface = NetInterface(NoText, "Unknown", NoOwner, <<>>, <<>>)
    /\ sys \in {[prefix |-> p] : p \in 0..U8Max}
    /\ strategy = None
    /\ log = <<>>
    /\ result = NoResult
    /\ warnings = None
    /\ interfaces = <<>>
    /\ screen = "Main"
    /\ app = NoApp

\* add_ip_addresses: netmask: prefix_to_netmask(prefix)
PrefixToNetmask ==
    /\ ~result.called
    /\ result' = [result EXCEPT !.called = TRUE, !.ok = TRUE,
                                !.val = Some(prefix_to_netmask(sys.prefix))]
    /\ UNCHANGED <<iface, sys, strategy, log, warnings, interfaces, screen>>
    /\ UNCHANGED app

NextNetmask == PrefixToNetmask

SpecNetmask == InitNetmask /\ [][NextNetmask]_vars

---------------------------------------------------------------------------
(* backend/runtime.rs: list_interfaces.                                    *)
(* sys.link_show is the Result<lines> of `ip -o link show`, sys.addr_lines *)
(* maps a name to the Result<lines> of `ip -o addr show dev <name>`, and   *)
(* sys.sysfs maps a name to its marker files; sys.route_dev maps a name to *)
(* the Result<text> of `ip route show default dev <name>`.                 *)

InClass(c, cls) ==
    CASE cls = "digit" -> IsDigit(c)
      [] cls = "space" -> IsSpace(c)
      [] cls = "name" -> c \notin {":", "@"}
      [] cls = "flags" -> c # ">"
      [] cls = "v4" -> IsDigit(c) \/ c = "."
      [] cls = "v6" -> IsDigit(c) \/ c \in {"a", "b", "c", "d", "e", "f", ":"}

\* how many characters of class cls follow each other in s from position i
RECURSIVE RunLen(_, _, _)
RunLen(s, i, cls) ==
    IF i > Len(s) \/ ~InClass(s[i], cls) THEN 0
    ELSE 1 + RunLen(s, i + 1, cls)

At(s, i, text) ==
    /\ i >= 1
    /\ i + Len(text) - 1 <= Len(s)
    /\ SubSeq(s, i, i + Len(text) - 1) = text

\* x \in {e} names the value of e, computed once
Only(set) == CHOOSE x \in set : TRUE

Max(set) == Only({(CHOOSE x \in S : \A y \in S : y <= x) : S \in {set}})

Min(set) == Only({(CHOOSE x \in S : \A y \in S : x <= y) : S \in {set}})

T_mtu == <<"m", "t", "u">>
T_UP == <<"U", "P">>
T_inet == <<"i", "n", "e", "t">>
T_default_via == <<"d", "e", "f", "a", "u", "l", "t", " ", "v", "i", "a", " ">>
T_inet6 == <<"i", "n", "e", "t", "6">>

\* the part <([^>]*)>\s+.*mtu\s+(\d+) of the link regex, from position p
LinkTail(line, p) ==
    LET f == p + 1 + RunLen(line, p + 1, "flags")
        mtus == {m \in (f + 2)..Len(line) :
                    /\ At(line, m, T_mtu)
                    /\ RunLen(line, m + 3, "space") >= 1
                    /\ RunLen(line, m + 3 + RunLen(line, m + 3, "space"),
                              "digit") >= 1}
    IN
    IF At(line, p, <<"<">>) /\ At(line, f, <<">">>)
          /\ RunLen(line, f + 1, "space") >= 1 /\ mtus # {}
    THEN LET m == Max(mtus)
             d == m + 3 + RunLen(line, m + 3, "space")
         IN Some([flags |-> SubSeq(line, p + 1, f - 1),
                  mtu |-> SubSeq(line, d, d + RunLen(line, d, "digit") - 1)])
    ELSE None

\* the part ([^:@]+)[@:]?\s* of the link regex for a name line[a..e]
LinkAfterName(line, e) ==
    LET with == LinkTail(line, e + 2 + RunLen(line, e + 2, "space"))
        without == LinkTail(line, e + 1 + RunLen(line, e + 1, "space"))
    IN
    IF e + 1 <= Len(line) /\ line[e + 1] \in {"@", ":"} /\ with.type = "Some"
    THEN with ELSE without

\* the name ends for which the rest of the link regex matches
LinkNameEnds(line, a) ==
    {e \in a..(a - 1 + RunLen(line, a, "name")) :
        LinkAfterName(line, e).type = "Some"}

LinkMatchAt(line, a, e) ==
    Only({[name |-> SubSeq(line, a, e), flags |-> t.flags, mtu |-> t.mtu] :
             t \in {LinkAfterName(line, e).val}})

\* regex ^\d+:\s+([^:@]+)[@:]?\s*<([^>]*)>\s+.*mtu\s+(\d+), greedy
LinkCaptures(line) ==
    LET d == RunLen(line, 1, "digit")
        starts == {a \in (d + 3)..(d + 2 + RunLen(line, d + 2, "space")) :
                      LinkNameEnds(line, a) # {}}
    IN
    IF d >= 1 /\ At(line, d + 1, <<":">>) /\ starts # {}
    THEN Some(Only(UNION {{LinkMatchAt(line, a, e) :
                              e \in {Max(LinkNameEnds(line, a))}} :
                          a \in {Max(starts)}}))
    ELSE None

AbsentFiles ==
    [uevent |-> Err, bridge |-> FALSE, tun_flags |-> Err, type |-> Err,
     device |-> FALSE]

FilesOf(s, name) ==
    IF name \in DOMAIN s.sysfs THEN s.sysfs[name] ELSE AbsentFiles

ParsedLink(caps, s) ==
    IF caps.type = "None" THEN Ok(None)
    ELSE LET name == Trim(caps.val.name)
             mtu == parse_u32(caps.val.mtu)
         IN
         IF mtu.type = "None" THEN Err
         ELSE Ok(Some([NetInterface(
                           name, detect_interface_kind(name, FilesOf(s, name)),
                           NoOwner, <<>>, <<>>)
                       EXCEPT !.state = IF Contains(caps.val.flags, T_UP)
                                        THEN "Up" ELSE "Down",
                              !.mtu = mtu.val]))

\* Result<Option<NetInterface>>
parse_interface_from_link(line, s) ==
    Only({ParsedLink(caps, s) : caps \in {LinkCaptures(line)}})

\* regex inet\s+([0-9.]+/\d+) and inet6\s+([0-9a-f:]+/\d+)
ExtractAddress(line, marker, cls) ==
    LET AddrAt(i) ==
            LET a == i + Len(marker) + RunLen(line, i + Len(marker), "space")
                ends == {e \in a..(a - 1 + RunLen(line, a, cls)) :
                            /\ At(line, e + 1, <<"/">>)
                            /\ RunLen(line, e + 2, "digit") >= 1}
            IN
            IF At(line, i, marker)
                  /\ RunLen(line, i + Len(marker), "space") >= 1
                  /\ ends # {}
            THEN Some(SubSeq(line, a,
                             Max(ends) + 1 + RunLen(line, Max(ends) + 2, "digit")))
            ELSE None
        hits == {i \in DOMAIN line : AddrAt(i).type = "Some"}
    IN
    IF hits = {} THEN None ELSE AddrAt(Min(hits))

extract_ipv4_address(line) == ExtractAddress(line, T_inet, "v4")

extract_ipv6_address(line) == ExtractAddress(line, T_inet6, "v6")

\* str::parse::<u8>: Some(value) for a non-empty run of digits up to 255,
\* after an optional plus sign
RECURSIVE DigitsValue(_)
DigitsValue(s) ==
    IF s = <<>> THEN 0
    ELSE 10 * DigitsValue(SubSeq(s, 1, Len(s) - 1)) + DigitValue(s[Len(s)])

parse_u8(s) ==
    LET digits == IF s # <<>> /\ Head(s) = "+" THEN Tail(s) ELSE s IN
    IF /\ digits # <<>>
       /\ \A i \in DOMAIN digits : IsDigit(digits[i])
       /\ Len(StripZeros(digits)) <= 3
       /\ DigitsValue(StripZeros(digits)) <= U8Max
    THEN Some(DigitsValue(StripZeros(digits)))
    ELSE None

\* str::split_once: the text before and after the first occurrence of c
split_once(s, c) ==
    LET hits == {i \in DOMAIN s : s[i] = c} IN
    IF hits = {} THEN None
    ELSE Some(<<SubSeq(s, 1, Min(hits) - 1), SubSeq(s, Min(hits) + 1, Len(s))>>)

\* Result<String>: `ip route show default dev <name>` and the capture of
\* the regex default via ([0-9.]+); Err when the command fails or nothing
\* matches
get_default_gateway(name, s) ==
    LET output == Lookup(s.route_dev, name)
        hits == IF output.ok
                THEN {i \in DOMAIN output.val :
                         /\ At(output.val, i, T_default_via)
                         /\ RunLen(output.val, i + Len(T_default_via), "v4") >= 1}
                ELSE {}
    IN
    IF hits = {} THEN Err
    ELSE Ok(SubSeq(output.val, Min(hits) + Len(T_default_via),
                   Min(hits) + Len(T_default_via) - 1
                       + RunLen(output.val, Min(hits) + Len(T_default_via), "v4")))

\* Result::ok
ok(r) == IF r.ok THEN Some(r.val) ELSE None

\* Ipv4Config { address, netmask, prefix, gateway } of one pushed address
Ipv4ConfigOf(addr, name, s) ==
    LET parts == split_once(addr, "/") IN
    IF parts.type = "None" THEN None
    ELSE Only({IF prefix.type = "None" THEN None
               ELSE Some([address |-> parts.val[1],
                          netmask |-> prefix_to_netmask(prefix.val),
                          prefix |-> prefix.val,
                          gateway |-> ok(get_default_gateway(name, s))]) :
                  prefix \in {parse_u8(parts.val[2])}})

\* push the address; assign ipv4_config when the prefix parses
AddIpv4(ifc, addr, s) ==
    Only({[ifc EXCEPT !.ipv4_addresses = Append(@, addr),
                      !.ipv4_config = IF cfg.type = "Some" THEN cfg ELSE @] :
             cfg \in {Ipv4ConfigOf(addr, ifc.name, s)}})

AddAddressLine(ifc, line, s) ==
    IF Contains(line, T_inet \o <<" ">>)
    THEN Only({IF v4.type = "Some" THEN AddIpv4(ifc, v4.val, s)
               ELSE ifc : v4 \in {extract_ipv4_address(line)}})
    ELSE IF Contains(line, T_inet6 \o <<" ">>)
    THEN Only({IF v6.type = "Some"
               THEN [ifc EXCEPT !.ipv6_addresses = Append(@, v6.val)]
               ELSE ifc : v6 \in {extract_ipv6_address(line)}})
    ELSE ifc

RECURSIVE AddAddressLines(_, _, _)
AddAddressLines(ifc, lines, s) ==
    IF lines = <<>> THEN ifc
    ELSE Only({AddAddressLines(next, Tail(lines), s) :
                  next \in {AddAddressLine(ifc, Head(lines), s)}})

\* Result<NetInterface>: the interface with its address lists filled
add_ip_addresses(ifc, s) ==
    LET output == Lookup(s.addr_lines, ifc.name) IN
    IF ~output.ok THEN Err ELSE Ok(AddAddressLines(ifc, output.val, s))

\* for line in output.lines() { if let Some(i) = parse(line)? { push } }
RECURSIVE ParseLinks(_, _, _)
ParseLinks(lines, s, acc) ==
    IF lines = <<>> THEN Ok(acc)
    ELSE Only({IF ~r.ok THEN Err
               ELSE ParseLinks(Tail(lines), s,
                               IF r.val.type = "Some"
                               THEN Append(acc, r.val.val) ELSE acc) :
                  r \in {parse_interface_from_link(Head(lines), s)}})

\* for iface in &mut interfaces { add_ip_addresses(iface)?; }
RECURSIVE AddAllAddresses(_, _, _)
AddAllAddresses(ifaces, s, acc) ==
    IF ifaces = <<>> THEN Ok(acc)
    ELSE Only({IF ~r.ok THEN Err
               ELSE AddAllAddresses(Tail(ifaces), s, Append(acc, r.val)) :
                  r \in {add_ip_addresses(Head(ifaces), s)}})

\* the detectors read the tun_flags marker of the interface at hand
DetectorView(s, name) ==
    [s EXCEPT !.tun_flags = FilesOf(s, name).tun_flags]

\* for iface in &mut interfaces { iface.owner = OwnerDetector::detect(iface); }
DetectOwners(ifaces, s) ==
    [k \in DOMAIN ifaces |->
        Only({[ifaces[k] EXCEPT !.owner = detect(ifaces[k], view).owner] :
                 view \in {DetectorView(s, ifaces[k].name)}})]

WithAddressesAndOwners(parsed, s) ==
    IF ~parsed.ok THEN Err
    ELSE Only({IF ~filled.ok THEN Err
               ELSE Ok(DetectOwners(filled.val, s)) :
                  filled \in {AddAllAddresses(parsed.val, s, <<>>)}})

list_interfaces_empty_on_failure(s) ==
    IF ~s.link_show.ok THEN Ok(<<>>)
    ELSE Only({WithAddressesAndOwners(parsed, s) :
                  parsed \in {ParseLinks(s.link_show.val, s, <<>>)}})

list_interfaces(s) ==
    IF ~s.link_show.ok THEN Err
    ELSE Only({WithAddressesAndOwners(parsed, s) :
                  parsed \in {ParseLinks(s.link_show.val, s, <<>>)}})

---------------------------------------------------------------------------
(* Inventory refresh: the inputs and the operation.                        *)

MaxLinks == 2

L_eth0 == 
    <<"2", ":", " ", "e", "t", "h", "0", ":", " ", "<", "B", "R", "O",
      "A", "D", "C", "A", "S", "T", ",", "U", "P", ">", " ", "m",
      "t", "u", " ", "1", "5", "0", "0", " ", "q", "d", "i", "s",
      "c", " ", "f", "q">>
L_wg0 == 
    <<"3", ":", " ", "w", "g", "0", ":", " ", "<", "P", "O", "I", "N",
      "T", "O", "P", "O", "I", "N", "T", ",", "N", "O", "A", "R",
      "P", ">", " ", "m", "t", "u", " ", "1", "4", "2", "0", " ",
      "q", "d", "i", "s", "c">>
L_veth_peer == 
    <<"5", ":", " ", "v", "e", "t", "h", "1", "2", "3", "4", "@", "i",
      "f", "4", ":", " ", "<", "U", "P", ">", " ", "m", "t", "u",
      " ", "1", "5", "0", "0">>
L_continuation == 
    <<" ", " ", " ", " ", "l", "i", "n", "k", "/", "e", "t", "h", "e",
      "r", " ", "0", "2", ":", "4", "2">>
L_huge_mtu == 
    <<"7", ":", " ", "t", "u", "n", "0", ":", " ", "<", "U", "P", ">",
      " ", "m", "t", "u", " ", "4", "2", "9", "4", "9", "6", "7",
      "2", "9", "6">>
A_inet == 
    <<"2", ":", " ", "e", "t", "h", "0", " ", " ", " ", " ", "i", "n",
      "e", "t", " ", "1", "0", ".", "0", ".", "0", ".", "1", "/",
      "2", "4", " ", "b", "r", "d", " ", "1", "0", ".", "0", ".",
      "0", ".", "2", "5", "5", " ", "s", "c", "o", "p", "e", " ",
      "g", "l", "o", "b", "a", "l">>
A_inet_second == 
    <<"2", ":", " ", "e", "t", "h", "0", " ", " ", " ", " ", "i", "n",
      "e", "t", " ", "1", "0", ".", "0", ".", "0", ".", "2", "/",
      "1", "6", " ", "s", "c", "o", "p", "e", " ", "g", "l", "o",
      "b", "a", "l", " ", "s", "e", "c", "o", "n", "d", "a", "r", "y">>
A_inet6 == 
    <<"2", ":", " ", "e", "t", "h", "0", " ", " ", " ", " ", "i", "n",
      "e", "t", "6", " ", "f", "e", "8", "0", ":", ":", "1", "/",
      "6", "4", " ", "s", "c", "o", "p", "e", " ", "l", "i", "n", "k">>

R_via ==
    <<"d", "e", "f", "a", "u", "l", "t", " ", "v", "i", "a", " ", "1",
      "0", ".", "0", ".", "0", ".", "2", "5", "4", " ", "d", "e", "v",
      " ", "e", "t", "h", "0", " ", "p", "r", "o", "t", "o", " ", "s",
      "t", "a", "t", "i", "c", "\n">>

LinkLines == {L_eth0, L_wg0, L_veth_peer, L_continuation, L_huge_mtu}

RECURSIVE ListsUpTo(_, _)
ListsUpTo(set, n) ==
    IF n = 0 THEN {<<>>}
    ELSE LET shorter == ListsUpTo(set, n - 1) IN
         shorter \cup {Append(l, x) : l \in {y \in shorter : Len(y) = n - 1},
                                      x \in set}

LinkShows ==
    {Err} \cup {Ok(l) : l \in {x \in ListsUpTo(LinkLines, MaxLinks) :
                                  \A i, j \in DOMAIN x : x[i] = x[j] => i = j}}

AddrWorlds ==
    {(N_eth0 :> Ok(<<A_inet, A_inet6, A_inet_second>>)) @@ (N_wg0 :> Ok(<<A_inet>>))
         @@ (N_tun0 :> Ok(<<>>)),
     (N_eth0 :> Err) @@ (N_wg0 :> Ok(<<A_inet>>)),
     (N_eth0 :> Ok(<<>>)) @@ (N_wg0 :> Err),
     <<>>}

HostSysfs ==
    (N_eth0 :> [AbsentFiles EXCEPT !.type = Ok(<<"1", "\n">>), !.device = TRUE])
    @@ (N_wg0 :> [AbsentFiles EXCEPT
                     !.uevent = Ok(T_devtype \o T_wireguard \o <<"\n">>)])
    @@ (N_tun0 :> [AbsentFiles EXCEPT !.tun_flags = Ok(<<"0", "x", "1", "\n">>)])

NoTools ==
    [docker_version |-> FALSE, docker_ps |-> Err, docker_inspect |-> <<>>,
     nsenter_links |-> <<>>, systemctl_status |-> <<>>, tun_flags |-> Err,
     procs |-> Err, nmcli_version |-> FALSE, nmcli_show |-> Err, lsmod |-> Err]

ToolWorlds ==
    {NoTools,
     [NoTools EXCEPT !.systemctl_status = T_unit :> Ok(T_status_active),
                     !.lsmod = Ok(T_lsmod)]}

\* `ip route show default dev <name>`: a default route through eth0 and
\* none through wg0, or the command failing for every name
RouteWorlds == {(N_eth0 :> Ok(R_via)) @@ (N_wg0 :> Ok(NoText)), <<>>}

ListWorlds ==
    {[link_show |-> l, addr_lines |-> a, sysfs |-> HostSysfs,
      route_dev |-> g] @@ t :
        l \in LinkShows, a \in AddrWorlds, t \in ToolWorlds, g \in RouteWorlds}

InitList ==
    /\ iface = NetInterface(NoText, "Unknown", NoOwner, <<>>, <<>>)
    /\ sys \in ListWorlds
    /\ strategy = None
    /\ log = <<>>
    /\ result = NoResult
    /\ warnings = None
    /\ interfaces = <<>>
    /\ screen = "Main"
    /\ app = NoApp

\* ui.rs App::new / App::refresh: self.interfaces = list_interfaces()?
ListInterfaces ==
    /\ ~result.called
    /\ LET r == list_interfaces(sys) IN
       /\ result' = [result EXCEPT !.called = TRUE, !.ok = r.ok,
                                   !.val = IF r.ok THEN Some(r.val) ELSE None]
       /\ interfaces' = IF r.ok THEN r.val ELSE interfaces
    /\ UNCHANGED <<iface, sys, strategy, log, warnings, screen>>
    /\ UNCHANGED app

NextList == ListInterfaces

SpecList == InitList /\ [][NextList]_vars

---------------------------------------------------------------------------
(* ui.rs: the delete flow of the event loop.                               *)
(* One loop iteration draws the current screen and then handles one key.   *)
(* The inventory holds the one interface under the cursor; sys holds the   *)
(* answers the detectors, the safety probes and the removal read.          *)

FlowIfaces ==
    {NetInterface(N_veth1234, "Veth", NoOwner, <<>>, <<>>),
     NetInterface(N_veth1234, "Veth", NoOwner, <<IP_A \o CIDR>>, <<>>),
     NetInterface(N_wg0, "WireGuard", NoOwner, <<IP_A \o CIDR>>, <<>>),
     NetInterface(N_docker0, "Docker", NoOwner, <<>>, <<>>),
     NetInterface(N_eth0, "Physical", NoOwner, <<>>, <<>>)}

FlowProbes(name) ==
    {[ssh_connection |-> None, addr_show |-> Err, route |-> Ok(name)],
     [ssh_connection |-> Some(<<IP_B, <<"5", "0">>, IP_A, <<"2", "2">>>>),
      addr_show |-> Ok(INET \o IP_A \o CIDR), route |-> Ok(NoText)],
     [ssh_connection |-> None, addr_show |-> Err, route |-> Err]}

FlowWorlds(name) ==
    {[docker_version |-> d.docker_version, docker_ps |-> d.docker_ps,
      docker_inspect |-> d.docker_inspect, nsenter_links |-> d.nsenter_links,
      systemctl_status |-> u, tun_flags |-> Err, procs |-> Err,
      nmcli_version |-> n.nmcli_version, nmcli_show |-> n.nmcli_show,
      lsmod |-> k, present |-> p, ssh_connection |-> q.ssh_connection,
      addr_show |-> q.addr_show, route |-> q.route] :
        d \in {x \in DockerWorlds : x.docker_inspect = <<>>
                                    /\ (x.docker_ps.ok => Len(x.docker_ps.val) < 2)},
        u \in SystemdWorlds(name),
        n \in {x \in NmWorlds : x.nmcli_show.ok => Len(x.nmcli_show.val) = 3},
        k \in {Err, Ok(T_lsmod)}, p \in BOOLEAN, q \in FlowProbes(name)}

\* refresh: the interface is listed while it exists, with its owner detected
RefreshOne(ifc, s) ==
    IF s.present THEN <<[ifc EXCEPT !.owner = detect(ifc, s).owner]>> ELSE <<>>

\* draw_confirm_delete evaluates the plan and the safety check it shows
SafetyShown(name) == Cmd("check_safety", name, TRUE)

InitDelete ==
    /\ iface \in FlowIfaces
    /\ sys \in FlowWorlds(iface.name)
    /\ strategy = None
    /\ log = <<>>
    /\ result = NoResult
    /\ warnings = None
    /\ interfaces = <<>>
    /\ screen = "Main"
    /\ app = NoApp

\* App::new and key r on the main screen: refresh
Refresh ==
    /\ screen = "Main"
    /\ ~result.called
    /\ interfaces = <<>>
    /\ interfaces' = RefreshOne(iface, sys)
    /\ iface' = IF interfaces' = <<>> THEN iface ELSE interfaces'[1]
    /\ UNCHANGED <<sys, strategy, log, result, warnings, screen>>
    /\ UNCHANGED app

\* key x or Delete on the main screen: only virtual interfaces get the dialog
KeyDelete ==
    /\ screen = "Main"
    /\ interfaces # <<>>
    /\ screen' = IF iface.kind \notin {"Physical", "Loopback"}
                 THEN "ConfirmDelete" ELSE screen
    /\ UNCHANGED <<iface, sys, strategy, log, result, warnings, interfaces>>
    /\ UNCHANGED app

\* an iteration on the dialog with no key, or a key the dialog ignores
Redraw ==
    /\ screen = "ConfirmDelete"
    /\ strategy' = Some(determine_strategy(iface))
    /\ warnings' = Some(check_safety(iface, sys))
    /\ log' = <<SafetyShown(iface.name)>>
    /\ UNCHANGED <<iface, sys, result, interfaces, screen>>
    /\ UNCHANGED app

\* key n, N, q or Esc on the dialog
KeyCancel ==
    /\ screen = "ConfirmDelete"
    /\ strategy' = Some(determine_strategy(iface))
    /\ warnings' = Some(check_safety(iface, sys))
    /\ log' = <<SafetyShown(iface.name)>>
    /\ screen' = "Main"
    /\ UNCHANGED <<iface, sys, result, interfaces>>
    /\ UNCHANGED app

KeyConfirm_unless_warned ==
    /\ screen = "ConfirmDelete"
    /\ check_safety(iface, sys) = <<>>
    /\ \E o \in Outcomes :
         LET r == remove_interface(iface, determine_strategy(iface),
                                   sys.present, o)
         IN
         /\ strategy' = Some(determine_strategy(iface))
         /\ warnings' = Some(check_safety(iface, sys))
         /\ log' = <<SafetyShown(iface.name)>> \o r.log
         /\ result' = [called |-> TRUE, ok |-> r.ok,
                       was_present |-> sys.present, val |-> None]
         /\ sys' = [sys EXCEPT !.present =
                       @ /\ ~(r.log # <<>>
                              /\ Last(r.log).cmd = "ip link delete"
                              /\ Last(r.log).ok)]
         /\ interfaces' = IF r.ok THEN RefreshOne(iface, sys') ELSE interfaces
         /\ screen' = IF r.ok THEN "Main" ELSE "Quit"
    /\ UNCHANGED iface
    /\ UNCHANGED app

\* key y, Y or Enter on the dialog: delete_selected_interface
KeyConfirm ==
    /\ screen = "ConfirmDelete"
    /\ \E o \in Outcomes :
         LET r == remove_interface(iface, determine_strategy(iface),
                                   sys.present, o)
         IN
         /\ strategy' = Some(determine_strategy(iface))
         /\ warnings' = Some(check_safety(iface, sys))
         /\ log' = <<SafetyShown(iface.name)>> \o r.log
         /\ result' = [called |-> TRUE, ok |-> r.ok,
                       was_present |-> sys.present, val |-> None]
         /\ sys' = [sys EXCEPT !.present =
                       @ /\ ~(r.log # <<>>
                              /\ Last(r.log).cmd = "ip link delete"
                              /\ Last(r.log).ok)]
         /\ interfaces' = IF r.ok THEN RefreshOne(iface, sys') ELSE interfaces
         /\ screen' = IF r.ok THEN "Main" ELSE "Quit"
    /\ UNCHANGED iface
    /\ UNCHANGED app

\* the host: the listed interface disappears while the dialog is open
Vanish ==
    /\ screen = "ConfirmDelete"
    /\ sys.present
    /\ sys' = [sys EXCEPT !.present = FALSE]
    /\ UNCHANGED <<iface, strategy, log, result, warnings, interfaces, screen>>
    /\ UNCHANGED app

NextDelete ==
    Refresh \/ KeyDelete \/ Redraw \/ KeyCancel \/ KeyConfirm \/ Vanish

SpecDelete == InitDelete /\ [][NextDelete]_vars

---------------------------------------------------------------------------
(* ui.rs: the event loop of App::run over an inventory of several          *)
(* interfaces.  sys.present is the set of names the host has; a refresh    *)
(* lists the interfaces of HostPool that are present, in listing order,    *)
(* with the owners the detectors find for them.  The loopback and the      *)
(* physical interface never leave the host.  app.list_state is             *)
(* ListState::selected (an index from 0), app.run tells whether App::run   *)
(* is still looping ("Running"), returned Ok or returned Err.  iface,      *)
(* strategy and warnings hold what the last draw of the confirmation       *)
(* dialog showed; result holds the last remove_interface call.             *)

\* NetInterface with its traffic_stats: 0 is TrafficStats::default(), 1 a
\* sample read from /sys/class/net/<name>/statistics
WithTraffic(ifc, sample) == ifc @@ [traffic_stats |-> sample]

HostPool ==
    <<NetInterface(N_lo, "Loopback", NoOwner, <<>>, <<>>),
      NetInterface(N_eth0, "Physical", NoOwner, <<IP_A \o CIDR>>, <<>>),
      NetInterface(N_veth1234, "Veth", NoOwner, <<>>, <<>>),
      NetInterface(N_wg0, "WireGuard",
                   SystemdService(T_wg_quick \o N_wg0 \o T_service, "active",
                                  None),
                   <<IP_B \o CIDR>>, <<>>)>>

Removable == {N_veth1234, N_wg0}

\* runtime::list_interfaces on the host, each record with default traffic
HostList(s) ==
    LET Present(ifc) == ifc.name \notin Removable \/ ifc.name \in s.present
        listed == SelectSeq(HostPool, Present)
    IN [k \in DOMAIN listed |-> WithTraffic(listed[k], 0)]

\* traffic.rs update_all: Err as soon as the statistics of one listed
\* interface cannot be read, which is the case once it left the host
update_all(ifaces, s) ==
    IF \E k \in DOMAIN ifaces :
           ifaces[k].name \in Removable /\ ifaces[k].name \notin s.present
    THEN Err
    ELSE Ok([k \in DOMAIN ifaces |-> [ifaces[k] EXCEPT !.traffic_stats = 1]])

\* App::refresh: list_interfaces()?, owner detection, update_all()?;
\* listOk tells whether list_interfaces succeeds
refresh(s, listOk) ==
    IF ~listOk THEN Err ELSE update_all(HostList(s), s)

\* self.interfaces.get(i) for the selected i
Selected ==
    IF app.list_state.type = "Some" /\ app.list_state.val < Len(interfaces)
    THEN Some(interfaces[app.list_state.val + 1])
    ELSE None

\* App::get_action_menu_items, each item by the action it names
get_action_menu_items ==
    IF Selected.type = "None" THEN <<>>
    ELSE LET ifc == Selected.val IN
         (IF ifc.kind = "Physical"
          THEN <<"EditConfig", "ToggleDhcp", "InterfaceUp", "InterfaceDown">>
          ELSE <<>>)
         \o (IF ifc.kind \notin {"Physical", "Loopback"}
             THEN <<"DeleteInterface", "InterfaceUp", "InterfaceDown">>
             ELSE <<>>)
         \o (CASE ifc.owner.type = "SystemdService" -> <<"StopService">>
               [] ifc.owner.type = "DockerContainer" ->
                      IF ifc.owner.id # T_system THEN <<"StopContainer">>
                      ELSE <<>>
               [] ifc.owner.type = "Process" -> <<"KillProcess">>
               [] ifc.owner.type = "NetworkManager" -> <<"Disconnect">>
               [] ifc.owner.type = "Kernel" -> <<"Rmmod">>
               [] OTHER -> <<>>)

\* the command outcomes of a removal the event loop is checked with
AppOutcomes ==
    {o \in Outcomes : /\ o.disableOk /\ o.dockerStopOk /\ o.termOk
                      /\ o.procExists /\ o.kill9Ok}

AppWorlds ==
    {[present |-> p, ssh_connection |-> None, addr_show |-> Err,
      route |-> r] : p \in SUBSET Removable, r \in {Err, Ok(N_wg0)}}

\* App::new succeeded: the inventory is listed, the first row is selected
InitApp ==
    /\ sys \in AppWorlds
    /\ interfaces = HostList(sys)
    /\ app = [NoApp EXCEPT !.list_state = [type |-> "Some", val |-> 0]]
    /\ screen = "Main"
    /\ iface = NetInterface(NoText, "Unknown", NoOwner, <<>>, <<>>)
    /\ strategy = None
    /\ warnings = None
    /\ log = <<>>
    /\ result = NoResult

Running == app.run = "Running" /\ ~app.should_quit

\* a `?` in handle_key or on_tick: App::run returns the error
RunFails == app' = [app EXCEPT !.run = "Err"]

\* key q on the main screen
KeyQuit ==
    /\ Running /\ screen = "Main"
    /\ app' = [app EXCEPT !.should_quit = TRUE]
    /\ UNCHANGED <<iface, sys, strategy, log, result, warnings, interfaces,
                   screen>>

\* if self.should_quit { break }
Break ==
    /\ app.run = "Running" /\ app.should_quit
    /\ app' = [app EXCEPT !.run = "Ok"]
    /\ UNCHANGED <<iface, sys, strategy, log, result, warnings, interfaces,
                   screen>>

Tick_refreshing ==
    /\ app.run = "Running"
    /\ LET r == refresh(sys, TRUE) IN
       IF r.ok THEN interfaces' = r.val /\ UNCHANGED app
       ELSE RunFails /\ UNCHANGED interfaces
    /\ UNCHANGED <<iface, sys, strategy, log, result, warnings, screen>>

\* on_tick once a second has passed; it also runs in the iteration of key q
Tick ==
    /\ app.run = "Running"
    /\ LET r == update_all(interfaces, sys) IN
       IF r.ok THEN interfaces' = r.val /\ UNCHANGED app
       ELSE RunFails /\ UNCHANGED interfaces
    /\ UNCHANGED <<iface, sys, strategy, log, result, warnings, screen>>

\* key r on the main screen: self.refresh()?
KeyRefresh ==
    /\ Running /\ screen = "Main"
    /\ \E listOk \in BOOLEAN :
         LET r == refresh(sys, listOk) IN
         IF r.ok THEN interfaces' = r.val /\ UNCHANGED app
         ELSE RunFails /\ UNCHANGED interfaces
    /\ UNCHANGED <<iface, sys, strategy, log, result, warnings, screen>>

\* App::next (Down, j) and App::previous (Up, k); the inventory holds the
\* loopback at least, so len() - 1 does not wrap
next ==
    IF app.list_state.type = "Some"
    THEN IF app.list_state.val >= Len(interfaces) - 1 THEN 0
         ELSE app.list_state.val + 1
    ELSE 0

previous ==
    IF app.list_state.type = "Some"
    THEN IF app.list_state.val = 0 THEN Len(interfaces) - 1
         ELSE app.list_state.val - 1
    ELSE 0

KeyDown ==
    /\ Running /\ screen = "Main"
    /\ app' = [app EXCEPT !.list_state = [type |-> "Some", val |-> next]]
    /\ UNCHANGED <<iface, sys, strategy, log, result, warnings, interfaces,
                   screen>>

KeyUp ==
    /\ Running /\ screen = "Main"
    /\ app' = [app EXCEPT !.list_state = [type |-> "Some", val |-> previous]]
    /\ UNCHANGED <<iface, sys, strategy, log, result, warnings, interfaces,
                   screen>>

\* key ? on the main screen, and the keys that close the help
KeyHelp ==
    /\ Running /\ screen \in {"Main", "Help"}
    /\ screen' = IF screen = "Main" THEN "Help" ELSE "Main"
    /\ UNCHANGED <<iface, sys, strategy, log, result, warnings, interfaces,
                   app>>

\* toggle_interface_up / toggle_interface_down: set_interface_up(name)?
\* (or down), then self.refresh()?
ToggleInterface ==
    IF Selected.type = "None" THEN UNCHANGED <<interfaces, app>>
    ELSE \E setOk, listOk \in BOOLEAN :
           LET r == refresh(sys, listOk) IN
           IF setOk /\ r.ok THEN interfaces' = r.val /\ UNCHANGED app
           ELSE RunFails /\ UNCHANGED interfaces

\* keys u and d on the main screen
KeyToggle ==
    /\ Running /\ screen = "Main"
    /\ ToggleInterface
    /\ UNCHANGED <<iface, sys, strategy, log, result, warnings, screen>>

\* keys e (edit form) and t (DHCP dialog) on the main screen: physical
\* interfaces only
KeyEditOrDhcp ==
    /\ Running /\ screen = "Main"
    /\ \E target \in {"EditIface", "ToggleDhcp"} :
         screen' = IF Selected.type = "Some" /\ Selected.val.kind = "Physical"
                   THEN target ELSE screen
    /\ UNCHANGED <<iface, sys, strategy, log, result, warnings, interfaces,
                   app>>

\* the edit form in navigation mode: Esc or q leaves; s saves, which shows
\* the error of save_interface_config or returns to Main and refreshes
KeyEditForm ==
    /\ Running /\ screen = "EditIface"
    /\ \E key \in {"Esc", "s"}, saveOk, listOk \in BOOLEAN :
         IF key = "Esc"
         THEN screen' = "Main" /\ UNCHANGED <<interfaces, app>>
         ELSE IF ~saveOk THEN UNCHANGED <<screen, interfaces, app>>
         ELSE /\ screen' = "Main"
              /\ LET r == refresh(sys, listOk) IN
                 IF r.ok THEN interfaces' = r.val /\ UNCHANGED app
                 ELSE RunFails /\ UNCHANGED interfaces
    /\ UNCHANGED <<iface, sys, strategy, log, result, warnings>>

\* the DHCP dialog: y runs toggle_dhcp()? and returns to Main, n returns
KeyDhcpDialog ==
    /\ Running /\ screen = "ToggleDhcp"
    /\ \E key \in {"y", "n"}, dhcpOk \in BOOLEAN :
         IF key = "y" /\ Selected.type = "Some" /\ ~dhcpOk
         THEN RunFails /\ UNCHANGED screen
         ELSE screen' = "Main" /\ UNCHANGED app
    /\ UNCHANGED <<iface, sys, strategy, log, result, warnings, interfaces>>

\* key o on the main screen: the owner dialog, for an interface with owner
KeyOwner ==
    /\ Running /\ screen = "Main"
    /\ screen' = IF Selected.type = "Some" /\ Selected.val.owner.type # "None"
                 THEN "OwnerActions" ELSE screen
    /\ UNCHANGED <<iface, sys, strategy, log, result, warnings, interfaces,
                   app>>

\* the owner dialog: n returns; y runs execute_owner_action()?, which stops
\* the owner (its result is only printed), sleeps and refreshes; stopping
\* the owner may take the interface off the host
KeyOwnerDialog ==
    /\ Running /\ screen = "OwnerActions"
    /\ \E key \in {"y", "n"}, gone, listOk \in BOOLEAN :
         IF key = "n" \/ Selected.type = "None"
            \/ Selected.val.owner.type \in {"None", "Unknown"}
         THEN screen' = "Main" /\ UNCHANGED <<sys, interfaces, app>>
         ELSE IF /\ Selected.val.owner.type = "DockerContainer"
                 /\ Selected.val.owner.id = T_system
         THEN RunFails /\ UNCHANGED <<sys, interfaces, screen>>
         ELSE /\ sys' = [sys EXCEPT !.present =
                            IF gone THEN @ \ {Selected.val.name} ELSE @]
              /\ LET r == refresh(sys', listOk) IN
                 IF r.ok
                 THEN interfaces' = r.val /\ screen' = "Main" /\ UNCHANGED app
                 ELSE RunFails /\ UNCHANGED <<interfaces, screen>>
    /\ UNCHANGED <<iface, strategy, log, result, warnings>>

\* key Enter on the main screen: the action menu
KeyMenu ==
    /\ Running /\ screen = "Main"
    /\ IF app.list_state.type = "Some"
       THEN /\ app' = [app EXCEPT !.action_menu_state = 0]
            /\ screen' = "InterfaceActions"
       ELSE UNCHANGED <<app, screen>>
    /\ UNCHANGED <<iface, sys, strategy, log, result, warnings, interfaces>>

\* Up, Down and Esc in the action menu
KeyMenuMove ==
    /\ Running /\ screen = "InterfaceActions"
    /\ \E key \in {"Up", "Down", "Esc"} :
         LET n == Len(get_action_menu_items) IN
         CASE key = "Up" ->
                /\ app' = [app EXCEPT !.action_menu_state =
                              IF @ > 0 THEN @ - 1 ELSE @]
                /\ UNCHANGED screen
           [] key = "Down" ->
                /\ app' = [app EXCEPT !.action_menu_state =
                              IF @ < (IF n = 0 THEN 0 ELSE n - 1)
                              THEN @ + 1 ELSE @]
                /\ UNCHANGED screen
           [] key = "Esc" -> screen' = "Main" /\ UNCHANGED app
    /\ UNCHANGED <<iface, sys, strategy, log, result, warnings, interfaces>>

\* Enter in the action menu: execute_action_menu_item()?
KeyMenuEnter ==
    /\ Running /\ screen = "InterfaceActions"
    /\ LET items == get_action_menu_items
           action == IF app.action_menu_state < Len(items)
                     THEN items[app.action_menu_state + 1] ELSE "none"
       IN
       CASE action = "none" -> UNCHANGED <<screen, interfaces, app, strategy,
                                           warnings>>
         [] action = "EditConfig" ->
              screen' = "EditIface"
                  /\ UNCHANGED <<interfaces, app, strategy, warnings>>
         [] action = "ToggleDhcp" ->
              screen' = "ToggleDhcp"
                  /\ UNCHANGED <<interfaces, app, strategy, warnings>>
         [] action \in {"InterfaceUp", "InterfaceDown"} ->
              screen' = "Main" /\ ToggleInterface
                  /\ UNCHANGED <<strategy, warnings>>
         [] action = "DeleteInterface" ->
              /\ screen' = "ConfirmDelete"
              /\ strategy' = None /\ warnings' = None
              /\ UNCHANGED <<interfaces, app>>
         [] OTHER ->
              screen' = "OwnerActions"
                  /\ UNCHANGED <<interfaces, app, strategy, warnings>>
    /\ UNCHANGED <<iface, sys, log, result>>

KeyX_any_kind ==
    /\ Running /\ screen = "Main"
    /\ IF Selected.type = "Some"
       THEN screen' = "ConfirmDelete" /\ strategy' = None /\ warnings' = None
       ELSE UNCHANGED <<screen, strategy, warnings>>
    /\ UNCHANGED <<iface, sys, log, result, interfaces, app>>

\* key x or Delete on the main screen: the dialog, for an interface that
\* is neither physical nor the loopback; nothing of it is drawn yet
KeyX ==
    /\ Running /\ screen = "Main"
    /\ IF /\ Selected.type = "Some"
          /\ Selected.val.kind \notin {"Physical", "Loopback"}
       THEN screen' = "ConfirmDelete" /\ strategy' = None /\ warnings' = None
       ELSE UNCHANGED <<screen, strategy, warnings>>
    /\ UNCHANGED <<iface, sys, log, result, interfaces, app>>

\* terminal.draw on the dialog: draw_confirm_delete shows the selected
\* record, its strategy and its warnings
DrawConfirmDelete ==
    /\ app.run = "Running" /\ screen = "ConfirmDelete"
    /\ Selected.type = "Some"
    /\ iface' = Selected.val
    /\ strategy' = Some(determine_strategy(Selected.val))
    /\ warnings' = Some(check_safety(Selected.val, sys))
    /\ UNCHANGED <<sys, log, result, interfaces, screen, app>>

\* keys n, N, Esc and q on the dialog
KeyNo ==
    /\ Running /\ screen = "ConfirmDelete"
    /\ screen' = "Main"
    /\ UNCHANGED <<iface, sys, strategy, log, result, warnings, interfaces,
                   app>>

\* the selection after a deletion: none in an empty inventory, the last row
\* when the index fell off the end
SelectionAfterDelete(ifaces, selected) ==
    IF ifaces = <<>> THEN [type |-> "None", val |-> 0]
    ELSE IF selected.val >= Len(ifaces)
    THEN [type |-> "Some", val |-> Len(ifaces) - 1]
    ELSE selected

\* keys y, Y and Enter on the dialog, the dialog having been drawn:
\* delete_selected_interface()?; self.screen = Main
KeyYes ==
    /\ Running /\ screen = "ConfirmDelete"
    /\ Selected.type = "Some" => strategy.type = "Some"
    /\ IF Selected.type = "None"
       THEN screen' = "Main" /\ UNCHANGED <<sys, log, result, interfaces, app>>
       ELSE \E o \in AppOutcomes, listOk \in BOOLEAN :
              LET ifc == Selected.val
                  plan == determine_strategy(ifc)
                  r == remove_interface(ifc, plan, ifc.name \in sys.present, o)
                  l == refresh(sys', listOk)
              IN
              /\ log' = r.log
              /\ result' = [called |-> TRUE, ok |-> r.ok,
                            was_present |-> ifc.name \in sys.present,
                            val |-> Some([iface |-> ifc, strategy |-> plan])]
              /\ sys' = [sys EXCEPT !.present =
                            IF r.log # <<>> /\ Last(r.log).cmd = "ip link delete"
                                  /\ Last(r.log).ok
                            THEN @ \ {ifc.name} ELSE @]
              /\ IF r.ok /\ l.ok
                 THEN /\ interfaces' = l.val
                      /\ app' = [app EXCEPT !.list_state =
                                    SelectionAfterDelete(l.val, @)]
                      /\ screen' = "Main"
                 ELSE RunFails /\ UNCHANGED <<interfaces, screen>>
    /\ UNCHANGED <<iface, strategy, warnings>>

\* the host: an interface leaves it (its owner stopped, its peer deleted)
Unplug ==
    /\ app.run = "Running"
    /\ \E n \in sys.present : sys' = [sys EXCEPT !.present = @ \ {n}]
    /\ UNCHANGED <<iface, strategy, log, result, warnings, interfaces, screen,
                   app>>

NextApp ==
    \/ KeyQuit \/ Break \/ Tick \/ KeyRefresh \/ KeyDown \/ KeyUp \/ KeyHelp
    \/ KeyToggle \/ KeyEditOrDhcp \/ KeyEditForm \/ KeyDhcpDialog \/ KeyOwner
    \/ KeyOwnerDialog \/ KeyMenu \/ KeyMenuMove \/ KeyMenuEnter \/ KeyX
    \/ DrawConfirmDelete \/ KeyNo \/ KeyYes \/ Unplug

SpecApp == InitApp /\ [][NextApp]_vars

---------------------------------------------------------------------------
(* ui.rs: the edit form of a physical interface and save_interface_config. *)
(* iface is the inventory record the form is opened for.  sys.addrs is the *)
(* list of IPv4 addresses the interface has at run time, sys.route_dev the *)
(* answers of `ip route show default dev <name>`, sys.netplan the address  *)
(* persisted for it; app.edit_form is Option<EditFormState>.               *)

\* str::split(c): the parts between the occurrences of c
RECURSIVE split(_, _)
split(s, c) ==
    LET hits == {i \in DOMAIN s : s[i] = c} IN
    IF hits = {} THEN <<s>>
    ELSE <<SubSeq(s, 1, Min(hits) - 1)>>
             \o split(SubSeq(s, Min(hits) + 1, Len(s)), c)

\* u32::count_ones over one octet
RECURSIVE count_ones(_)
count_ones(n) == IF n = 0 THEN 0 ELSE (n % 2) + count_ones(n \div 2)

netmask_to_prefix_full_octets(netmask) ==
    LET parts == [k \in DOMAIN split(netmask, ".") |->
                     parse_u8(split(netmask, ".")[k])]
    IN
    IF \E k \in DOMAIN parts : parts[k].type = "None" THEN Err
    ELSE IF Len(parts) # 4 THEN Err
    ELSE Ok(8 * Cardinality({k \in 1..4 : parts[k].val = U8Max}))

\* App::netmask_to_prefix: Result<u8>
netmask_to_prefix(netmask) ==
    LET parts == [k \in DOMAIN split(netmask, ".") |->
                     parse_u8(split(netmask, ".")[k])]
    IN
    IF \E k \in DOMAIN parts : parts[k].type = "None" THEN Err
    ELSE IF Len(parts) # 4 THEN Err
    ELSE Ok(count_ones(parts[1].val) + count_ones(parts[2].val)
                + count_ones(parts[3].val) + count_ones(parts[4].val))

T_default_netmask ==
    <<"2", "5", "5", ".", "2", "5", "5", ".", "2", "5", "5", ".", "0">>

\* EditFormState::new: the address before the '/' of the first IPv4
\* address, the netmask and gateway of ipv4_config
EditFormState_new(ifc) ==
    [interface_name |-> ifc.name,
     ip_address |-> IF ifc.ipv4_addresses = <<>> THEN NoText
                    ELSE split(ifc.ipv4_addresses[1], "/")[1],
     netmask |-> IF ifc.ipv4_config.type = "Some"
                 THEN ifc.ipv4_config.val.netmask ELSE T_default_netmask,
     gateway |-> IF ifc.ipv4_config.type = "Some"
                    /\ ifc.ipv4_config.val.gateway.type = "Some"
                 THEN ifc.ipv4_config.val.gateway.val ELSE NoText,
     error_message |-> None]

\* which of flush, address set, gateway set and netplan write succeed:
\* after the first failure the later commands are not issued
SaveOutcomes ==
    {[flushOk |-> n >= 1, addOk |-> n >= 2, gatewayOk |-> n >= 3,
      netplanOk |-> n >= 4] : n \in 0..4}

\* save_interface_config: [ok, prefix, sys] with the host as the commands
\* that ran left it
save_interface_config(form, s, o) ==
    IF form.ip_address = NoText \/ form.gateway = NoText
    THEN [ok |-> FALSE, prefix |-> None, sys |-> s]
    ELSE LET prefix == netmask_to_prefix(form.netmask) IN
         IF ~prefix.ok THEN [ok |-> FALSE, prefix |-> None, sys |-> s]
         ELSE LET cidr == form.ip_address \o <<"/">> \o to_string(prefix.val)
                  flushed == [s EXCEPT !.addrs = <<>>]
                  added == [flushed EXCEPT !.addrs = <<cidr>>]
                  routed == [added EXCEPT !.route_dev =
                                (form.interface_name :>
                                    Ok(T_default_via \o form.gateway
                                           \o <<"\n">>))]
                  saved == [routed EXCEPT !.netplan = Some(cidr)]
              IN
              IF ~o.flushOk
              THEN [ok |-> FALSE, prefix |-> Some(prefix.val), sys |-> s]
              ELSE IF ~o.addOk
              THEN [ok |-> FALSE, prefix |-> Some(prefix.val), sys |-> flushed]
              ELSE IF ~o.gatewayOk
              THEN [ok |-> FALSE, prefix |-> Some(prefix.val), sys |-> added]
              ELSE IF ~o.netplanOk
              THEN [ok |-> FALSE, prefix |-> Some(prefix.val), sys |-> routed]
              ELSE [ok |-> TRUE, prefix |-> Some(prefix.val), sys |-> saved]

\* one inventory record of eth0 per prefix length, as add_ip_addresses
\* fills it from one address line, and one without address
SaveRoutes == {(N_eth0 :> Ok(R_via)), <<>>}

\* list_interfaces for eth0: the record add_ip_addresses fills from the
\* addresses the interface has
RECURSIVE AddAddresses(_, _, _)
AddAddresses(ifc, addrs, s) ==
    IF addrs = <<>> THEN ifc
    ELSE Only({AddAddresses(added, Tail(addrs), s) :
                  added \in {AddIpv4(ifc, Head(addrs), s)}})

SaveListed(s) ==
    AddAddresses(NetInterface(N_eth0, "Physical", NoOwner, <<>>, <<>>),
                 s.addrs, s)

SaveIfaces ==
    {SaveListed([addrs |-> a, route_dev |-> r]) :
        a \in {<<>>} \cup {<<IP_A \o <<"/">> \o to_string(p)>> :
                               p \in 0..MaxPrefix},
        r \in SaveRoutes}

\* what the user may have typed into a field
T_abc == <<"a", "b", "c">>
T_mask_16 == <<"2", "5", "5", ".", "2", "5", "5", ".", "0", ".", "0">>
T_mask_short == <<"2", "5", "5", ".", "2", "5", "5", ".", "0">>
T_mask_256 == <<"2", "5", "6", ".", "0", ".", "0", ".", "0">>

TypedTexts ==
    [ip_address |-> {NoText, T_abc, IP_B},
     netmask |-> {T_mask_16, T_mask_short, T_mask_256},
     gateway |-> {NoText, IP_B}]

NoForm == NoApp @@ [edit_form |-> None]

InitSave ==
    /\ iface \in SaveIfaces
    /\ \E routes \in SaveRoutes :
         /\ SaveListed([addrs |-> iface.ipv4_addresses,
                        route_dev |-> routes]) = iface
         /\ sys = [addrs |-> iface.ipv4_addresses, route_dev |-> routes,
                   netplan |-> None]
    /\ interfaces = <<iface>>
    /\ app = [NoForm EXCEPT !.list_state = [type |-> "Some", val |-> 0]]
    /\ screen = "Main"
    /\ strategy = None
    /\ warnings = None
    /\ log = <<>>
    /\ result = NoResult

\* key e on the main screen, for the physical interface selected
OpenEditForm ==
    /\ screen = "Main" /\ ~result.called
    /\ iface.kind = "Physical"
    /\ app' = [app EXCEPT !.edit_form = Some(EditFormState_new(iface))]
    /\ screen' = "EditIface"
    /\ UNCHANGED <<iface, sys, strategy, log, result, warnings, interfaces>>

\* handle_edit_form_key in editing mode: the keys typed into one field,
\* taken together
TypeField ==
    /\ screen = "EditIface" /\ ~result.called
    /\ \E field \in DOMAIN TypedTexts : \E text \in TypedTexts[field] :
         app' = [app EXCEPT !.edit_form.val[field] = text]
    /\ UNCHANGED <<iface, sys, strategy, log, result, warnings, interfaces,
                   screen>>

\* key s in navigation mode: on Err the form stays with the message, on Ok
\* the form closes and the inventory is refreshed, a failing refresh ending
\* the event loop; result.val keeps the prefix computed, the form saved
\* and the run-time addresses before the call
KeySave ==
    /\ screen = "EditIface" /\ ~result.called
    /\ \E o \in SaveOutcomes, listOk \in BOOLEAN :
         LET r == save_interface_config(app.edit_form.val, sys, o) IN
         /\ sys' = r.sys
         /\ result' = [called |-> TRUE, ok |-> r.ok, was_present |-> TRUE,
                       val |-> Some([prefix |-> r.prefix,
                                     form |-> app.edit_form.val,
                                     addrs_before |-> sys.addrs])]
         /\ screen' = IF r.ok THEN "Main" ELSE screen
         /\ app' = IF ~r.ok
                   THEN [app EXCEPT !.edit_form.val.error_message = Some("save")]
                   ELSE [app EXCEPT !.edit_form = None,
                                    !.run = IF listOk THEN @ ELSE "Err"]
         /\ interfaces' = IF r.ok /\ listOk THEN <<SaveListed(r.sys)>>
                          ELSE interfaces
    /\ UNCHANGED <<iface, strategy, log, warnings>>

NextSave == OpenEditForm \/ TypeField \/ KeySave

SpecSave == InitSave /\ [][NextSave]_vars

---------------------------------------------------------------------------
(* Claims about the removal engine.                                        *)

DeleteAttempted ==
    log # <<>> /\ Last(log).cmd = "ip link delete" /\ Last(log).arg = iface.name

\* C1: for every strategy a failing intermediate step (stop, disable,
\* container stop, kill) is not raised: the deletion is still attempted and
\* remove_interface fails only when the final deletion fails.
C1_StepFailureNotRaised ==
    result.called =>
        /\ DeleteAttempted
        /\ (~result.ok => ~Last(log).ok)

\* C2: remove_interface returns success only if the delete command ran and
\* succeeded, fails whenever the delete command fails, and an interface
\* that is already gone is reported as a failure.
C2_SuccessOnlyByDelete ==
    result.called =>
        /\ (result.ok => DeleteAttempted /\ Last(log).ok)
        /\ (\A i \in DOMAIN log :
               log[i].cmd = "ip link delete" /\ ~log[i].ok => ~result.ok)
        /\ (~result.was_present => ~result.ok)

C2_Witness ==
    /\ result.called /\ ~result.was_present /\ ~result.ok
    /\ DeleteAttempted /\ ~Last(log).ok

StrategyTable ==
    [t \in {"None", "SystemdService", "DockerContainer", "Process",
            "NetworkManager", "Kernel", "Unknown"} |->
        CASE t = "SystemdService" -> "StopAndDisableService"
          [] t = "DockerContainer" -> "StopContainer"
          [] t = "Process" -> "KillProcess"
          [] t = "NetworkManager" -> "StopService"
          [] OTHER -> "InterfaceOnly"]

C4_StrategyTotalPure ==
    /\ [](strategy.type = "Some" =>
            /\ strategy.val = StrategyTable[iface.owner.type]
            /\ strategy.val \in RemovalStrategy)
    /\ [][(strategy.type = "None" /\ strategy'.type = "Some") =>
            UNCHANGED <<iface, sys, log, result, warnings, interfaces,
                        screen, app>>]_vars

C4_Witness ==
    /\ strategy.type = "Some"
    /\ iface.owner.type = "NetworkManager"
    /\ strategy.val = "StopService"

\* C10: check_safety evaluates the default-route check and the address
\* check whatever the other checks gave, and returns each applicable
\* warning as an entry of its own: the default-route interface carrying an
\* address gets both the default-route entry and the address entry.
C10_SeparateWarnings ==
    warnings.type = "Some" =>
        LET w == warnings.val
            has(t) == \E i \in DOMAIN w : w[i] = Warning(t, iface.name)
            ssh_on_iface ==
                /\ sys.ssh_connection.type = "Some"
                /\ Len(sys.ssh_connection.val) >= 3
                /\ sys.addr_show.ok
                /\ Contains(sys.addr_show.val, sys.ssh_connection.val[3])
        IN
        /\ has("default-route") <=> (sys.route.ok /\ sys.route.val = iface.name)
        /\ has("addresses") <=>
              (iface.ipv4_addresses # <<>> \/ iface.ipv6_addresses # <<>>)
        /\ ssh_on_iface => has("ssh")
        /\ \A i, j \in DOMAIN w : w[i] = w[j] => i = j
        /\ \A i \in DOMAIN w :
              w[i].text \in {"ssh", "default-route", "addresses"}

C10_Witness ==
    /\ warnings.type = "Some"
    /\ sys.route.ok /\ sys.route.val = iface.name
    /\ iface.ipv4_addresses # <<>>
    /\ warnings.val = <<Warning("default-route", iface.name),
                        Warning("addresses", iface.name)>>

---------------------------------------------------------------------------
(* Claims about kind classification.                                       *)

\* the decision list of section 4.1, as (rule matches, kind) pairs in order
KindRules(name, f) ==
    LET flags == IF f.tun_flags.ok THEN Trim(f.tun_flags.val) ELSE <<"-">> IN
    << <<name = N_lo, "Loopback">>,
       <<name = N_docker0 \/ StartsWith(name, <<"b", "r", "-">>), "Docker">>,
       <<StartsWith(name, <<"w", "g">>) /\ f.uevent.ok
             /\ Contains(f.uevent.val, T_wireguard), "WireGuard">>,
       <<StartsWith(name, <<"v", "e", "t", "h">>), "Veth">>,
       <<\E i \in DOMAIN name : name[i] = ".", "Vlan">>,
       <<f.bridge, "Bridge">>,
       <<flags \in {<<"0", "x", "1">>, <<"1">>}, "Tun">>,
       <<flags \in {<<"0", "x", "2">>, <<"2">>}, "Tap">>,
       <<StartsWith(name, <<"t", "u", "n">>), "Tun">>,
       <<StartsWith(name, <<"t", "a", "p">>), "Tap">>,
       <<f.type.ok /\ Trim(f.type.val) = <<"1">> /\ f.device, "Physical">>,
       <<TRUE, "Unknown">> >>

FirstMatch(rules) ==
    rules[CHOOSE i \in DOMAIN rules :
              rules[i][1] /\ \A j \in 1..(i - 1) : ~rules[j][1]][2]

\* C6: the kind is that of the first matching rule of the decision list
\* (loopback, Docker bridge, WireGuard, veth, dot, bridge marker, tun_flags,
\* tun/tap prefix, Ethernet with device, Unknown); br-0.1 is a Docker
\* bridge, not a VLAN.
C6_FirstMatchWins ==
    result.called =>
        /\ iface.kind = FirstMatch(KindRules(iface.name, sys))
        /\ (iface.name = N_br_0_1 => iface.kind = "Docker")

C6_Witness ==
    /\ result.called
    /\ iface.name = N_br_0_1
    /\ iface.kind = "Docker"
    /\ sys.bridge

---------------------------------------------------------------------------
(* Claims about ownership resolution.                                      *)

DetectorOutcome(i) ==
    CASE i = 1 -> check_docker_container(iface.name, iface.kind, sys)
      [] i = 2 -> check_systemd_service(iface.name, iface.kind, sys)
      [] i = 3 -> check_process_fd(iface.name, sys)
      [] i = 4 -> check_network_manager(iface.name, sys)
      [] i = 5 -> check_kernel_module(iface.kind, sys)

\* C5: detect consults container, service manager, process descriptor,
\* connection manager, kernel module in that order, returns the first
\* owner found without running the later detectors, and returns none only
\* when all five found none; a container match wins over any later match.
C5_FirstDetectorWins ==
    result.called =>
        LET n == Len(log) IN
        /\ n \in 1..5
        /\ log = SubSeq(<<"container", "service", "process", "connection",
                          "module">>, 1, n)
        /\ \A i \in 1..(n - 1) : DetectorOutcome(i) = NoOwner
        /\ iface.owner = DetectorOutcome(n)
        /\ (iface.owner = NoOwner <=> \A i \in 1..5 : DetectorOutcome(i) = NoOwner)
        /\ (iface.owner = NoOwner => n = 5)
        /\ (DetectorOutcome(1) # NoOwner => iface.owner = DetectorOutcome(1))

C5_Witness ==
    /\ result.called
    /\ iface.owner.type = "DockerContainer"
    /\ DetectorOutcome(2) # NoOwner
    /\ DetectorOutcome(4) # NoOwner
    /\ log = <<"container">>

\* C9: detect never fails: with any tool missing or failing, any file
\* unreadable and any text unmatched, the detector concerned yields no
\* match, the chain goes on, and the result is an owner or none.
C9_DetectNeverFails ==
    result.called =>
        /\ iface.owner.type \in
               {"None", "SystemdService", "DockerContainer", "Process",
                "NetworkManager", "Kernel"}
        /\ (~sys.docker_version => iface.owner.type # "DockerContainer")
        /\ (DOMAIN sys.systemctl_status = {} =>
               iface.owner.type # "SystemdService")
        /\ (~sys.tun_flags.ok \/ ~sys.procs.ok => iface.owner.type # "Process")
        /\ (~sys.nmcli_version \/ ~sys.nmcli_show.ok =>
               iface.owner.type # "NetworkManager")
        /\ (~sys.lsmod.ok => iface.owner.type # "Kernel")
        /\ (iface.owner.type = "None" => Len(log) = 5)

C9_Witness ==
    /\ result.called
    /\ iface.kind = "WireGuard"
    /\ ~sys.docker_version /\ DOMAIN sys.systemctl_status = {}
    /\ ~sys.procs.ok /\ ~sys.nmcli_version /\ ~sys.lsmod.ok
    /\ iface.owner = NoOwner
    /\ Len(log) = 5

---------------------------------------------------------------------------
(* Claims about the inventory refresh (SpecList).                          *)

\* the interfaces the link listing yields, before addresses and owners
ParsedLinks == ParseLinks(sys.link_show.val, sys, <<>>)

\* C7: when the link listing is read and parsed, and the address probe of
\* a listed interface fails, list_interfaces still succeeds and returns
\* that interface with empty IPv4 and IPv6 address lists.
C7_AddrProbeFailureTolerated ==
    (result.called /\ sys.link_show.ok /\ ParsedLinks.ok) =>
        \A k \in DOMAIN ParsedLinks.val :
            ~Lookup(sys.addr_lines, ParsedLinks.val[k].name).ok =>
                /\ result.ok
                /\ \E j \in DOMAIN interfaces :
                      /\ interfaces[j].name = ParsedLinks.val[k].name
                      /\ interfaces[j].ipv4_addresses = <<>>
                      /\ interfaces[j].ipv6_addresses = <<>>

\* C8: when the primary link listing probe fails, list_interfaces returns
\* an error and no interface list: neither a partial nor an empty
\* inventory is reported as success.
C8_LinkFailureIsError ==
    (result.called /\ ~sys.link_show.ok) =>
        /\ ~result.ok
        /\ result.val = None
        /\ interfaces = <<>>

C8_Witness ==
    /\ result.called
    /\ ~sys.link_show.ok
    /\ ~result.ok
    /\ \E n \in DOMAIN sys.addr_lines : sys.addr_lines[n].ok

---------------------------------------------------------------------------
(* Claims about the safety check and the SSH session (SpecSafety).         *)

\* C11: check_safety returns the SSH warning exactly when the local address
\* of the active SSH session is on the interface; without a session, or
\* with the session's address elsewhere, there is no SSH warning whatever
\* the default route is.
C11_SshWarningOnlyForSession ==
    warnings.type = "Some" =>
        LET w == warnings.val
            session_on_iface ==
                /\ sys.ssh_connection.type = "Some"
                /\ Len(sys.ssh_connection.val) >= 3
                /\ sys.addr_show.ok
                /\ Contains(sys.addr_show.val, sys.ssh_connection.val[3])
        IN
        (\E i \in DOMAIN w : w[i] = Warning("ssh", iface.name))
            <=> session_on_iface

---------------------------------------------------------------------------
(* Claims about the netmask derivation (SpecNetmask).                      *)

\* 2^n for n in 0..8
RECURSIVE Pow2(_)
Pow2(n) == IF n = 0 THEN 1 ELSE 2 * Pow2(n - 1)

\* the n-th octet of the mask whose p most significant bits are set
MaskOctet(p, n) ==
    LET set == IF p >= 8 * n THEN 8
               ELSE IF p <= 8 * (n - 1) THEN 0 ELSE p - 8 * (n - 1)
    IN 256 - Pow2(8 - set)

\* C12: prefix_to_netmask gives, for every prefix length p in 0..32, the
\* dotted form of the 32-bit mask whose p most significant bits are set
\* (0.0.0.0 for 0, 255.255.255.0 for 24, 255.255.255.255 for 32), and
\* 255.255.255.255 for every p above 32.
C12_NetmaskOfPrefix ==
    result.called =>
        LET p == sys.prefix
            text == result.val.val
        IN
        /\ p <= 32 => text = Dotted(MaskOctet(p, 1), MaskOctet(p, 2),
                                    MaskOctet(p, 3), MaskOctet(p, 4))
        /\ p > 32 => text = <<"2", "5", "5", ".", "2", "5", "5", ".",
                              "2", "5", "5", ".", "2", "5", "5">>
        /\ p = 0 => text = <<"0", ".", "0", ".", "0", ".", "0">>
        /\ p = 24 => text = <<"2", "5", "5", ".", "2", "5", "5", ".",
                              "2", "5", "5", ".", "0">>
        /\ p = 32 => text = <<"2", "5", "5", ".", "2", "5", "5", ".",
                              "2", "5", "5", ".", "2", "5", "5">>

C12_Witness ==
    /\ result.called
    /\ sys.prefix = 20
    /\ result.val.val = <<"2", "5", "5", ".", "2", "5", "5", ".",
                          "2", "4", "0", ".", "0">>

---------------------------------------------------------------------------
(* Claims about the delete flow (SpecDelete).                              *)

\* the commands remove_interface issued, after the dialog's safety check
RemovalLog == Tail(log)

NoDetectorMatches == \A i \in 1..5 : DetectorOutcome(i).type = "None"

\* C13: for a veth interface that no detector matches, the owner is none,
\* the strategy is InterfaceOnly, and remove_interface issues the interface
\* deletion as its only command: it reports success when the deletion
\* succeeds and failure when the interface no longer exists.
C13_UnownedVethDeletedDirectly ==
    (result.called /\ iface.kind = "Veth" /\ NoDetectorMatches) =>
        /\ iface.owner = NoOwner
        /\ strategy.val = "InterfaceOnly"
        /\ Len(RemovalLog) = 1
        /\ RemovalLog[1].cmd = "ip link delete"
        /\ RemovalLog[1].arg = iface.name
        /\ result.ok <=> RemovalLog[1].ok
        /\ ~result.was_present => ~result.ok

C13_Witness ==
    /\ result.called /\ iface.kind = "Veth" /\ NoDetectorMatches
    /\ iface.name = N_veth1234
    /\ ~result.was_present /\ ~result.ok
    /\ screen = "Quit"

\* C14: for a WireGuard interface N whose unit wg-quick@N.service answers
\* the status query, the owner is SystemdService with that unit name (the
\* unit is queried before any other), the status read from the Active line
\* (active, inactive, failed, otherwise unknown) whatever it is, and the
\* start time the text between "since" and the next ";" if there is one;
\* the strategy shown and used is StopAndDisableService.
C14_WireGuardUnitOwner ==
    LET unit == T_wg_quick \o iface.name \o T_service
        report == Lookup(sys.systemctl_status, unit)
    IN
    ((interfaces # <<>> \/ result.called) /\ iface.kind = "WireGuard"
        /\ report.ok) =>
        /\ iface.owner.type = "SystemdService"
        /\ iface.owner.name = unit
        /\ report.val = T_status_active =>
              /\ iface.owner.status = "Active"
              /\ iface.owner.start_time =
                    Some(<<"M", "o", "n", " ", "2", "0", "2", "4", "-", "0", "1", "-",
                            "0", "1", " ", "1", "0", ":", "0", "0", ":", "0", "0", " ", "U",
                            "T", "C">>)
        /\ report.val = T_status_inactive =>
              /\ iface.owner.status = "Inactive"
              /\ iface.owner.start_time = None
        /\ report.val = T_status_failed =>
              /\ iface.owner.status = "Failed"
              /\ iface.owner.start_time = Some(<<"T", "u", "e">>)
        /\ report.val = T_status_other =>
              /\ iface.owner.status = "Unknown"
              /\ iface.owner.start_time = None
        /\ strategy.type = "Some" => strategy.val = "StopAndDisableService"

C14_Witness ==
    /\ iface.kind = "WireGuard"
    /\ Lookup(sys.systemctl_status,
              T_openvpn_at \o iface.name \o T_service).ok
    /\ iface.owner.type = "SystemdService"
    /\ iface.owner.name = T_wg_quick \o iface.name \o T_service
    /\ iface.owner.status = "Inactive"
    /\ strategy.type = "Some"
    /\ strategy.val = "StopAndDisableService"

\* C15: in the delete flow check_safety is evaluated for the selected
\* interface before remove_interface runs on it, it always returns a list
\* of warnings, and it is advisory: whatever it returns, confirming the
\* dialog executes the removal.
C15_SafetyCheckIsAdvisory ==
    /\ screen = "ConfirmDelete" => ENABLED KeyConfirm
    /\ warnings.type = "Some" =>
          /\ warnings.val = check_safety(iface, sys)
          /\ \A i \in DOMAIN warnings.val :
                warnings.val[i].text \in {"ssh", "default-route", "addresses"}
    /\ result.called =>
          /\ warnings.type = "Some"
          /\ log[1] = SafetyShown(iface.name)
          /\ Len(log) >= 2
          /\ \A i \in 2..Len(log) : log[i].cmd # "check_safety"

C15_Witness ==
    /\ result.called /\ result.ok
    /\ Len(warnings.val) = 3
    /\ Last(log).cmd = "ip link delete"

---------------------------------------------------------------------------
(* Claims about the steps of the removal plans (SpecRemoval).              *)

\* C16: with StopAndDisableService the commands are stop unit, disable
\* unit, delete interface, in that order and each of them attempted: the
\* disable also after a failed stop, the delete also after a failed stop
\* or disable.
C16_StopDisableDeleteAllAttempted ==
    (result.called /\ strategy.val = "StopAndDisableService"
        /\ iface.owner.type = "SystemdService") =>
        /\ Len(log) = 3
        /\ log[1] = Cmd("systemctl stop", iface.owner.name, log[1].ok)
        /\ log[2] = Cmd("systemctl disable", iface.owner.name, log[2].ok)
        /\ log[3] = Cmd("ip link delete", iface.name, log[3].ok)

\* C17: with StopService, the strategy of an interface owned by a
\* connection-manager connection, a stop of the owner is issued before the
\* interface deletion: some command other than the deletion precedes it.
C17_StopPrecedesDelete ==
    (result.called /\ strategy.val = "StopService") =>
        \A i \in DOMAIN log :
            log[i].cmd = "ip link delete" =>
                \E j \in 1..(i - 1) : log[j].cmd # "ip link delete"

\* C18: with StopContainer, the synthetic bridge owner (id "system") gets no
\* container stop and the deletion is the only command; any other container
\* is stopped before the deletion, and the deletion is issued whether or
\* not the stop succeeded.
C18_ContainerStopThenDelete ==
    (result.called /\ strategy.val = "StopContainer"
        /\ iface.owner.type = "DockerContainer") =>
        IF iface.owner.id = T_system
        THEN /\ Len(log) = 1
             /\ log[1].cmd = "ip link delete" /\ log[1].arg = iface.name
        ELSE /\ Len(log) = 2
             /\ log[1].cmd = "docker stop" /\ log[1].arg = iface.owner.id
             /\ log[2].cmd = "ip link delete" /\ log[2].arg = iface.name
             /\ result.ok <=> log[2].ok

C18_Witness ==
    /\ result.called /\ strategy.val = "StopContainer"
    /\ iface.owner.type = "DockerContainer"
    /\ iface.owner.id = T_abc123
    /\ Len(log) = 2
    /\ ~log[1].ok
    /\ log[2].cmd = "ip link delete" /\ log[2].ok
    /\ result.ok

---------------------------------------------------------------------------
(* Claims about link lines and address lines (SpecList).                   *)

\* the position in the link listing of the line that names the interface
LinePosition(name) ==
    CHOOSE k \in DOMAIN sys.link_show.val :
        Contains(sys.link_show.val[k], <<" ">> \o name \o <<":">>)

\* C19: no single link line makes list_interfaces fail: with the link
\* listing read and every address probe answering, the result is a list,
\* a line without name, flags and MTU, or with an MTU that does not fit,
\* is skipped, and the interfaces keep the order of their lines.
C19_BadLinkLinesSkipped ==
    (result.called /\ sys.link_show.ok
        /\ \A n \in {N_eth0, N_wg0, N_tun0} : Lookup(sys.addr_lines, n).ok) =>
        /\ result.ok
        /\ \A j, k \in DOMAIN interfaces :
              j < k => LinePosition(interfaces[j].name)
                           < LinePosition(interfaces[k].name)


\* the captures of the IPv4 lines of one address listing, in listing order
RECURSIVE Ipv4Texts(_)
Ipv4Texts(lines) ==
    IF lines = <<>> THEN <<>>
    ELSE (IF /\ Contains(Head(lines), T_inet \o <<" ">>)
             /\ extract_ipv4_address(Head(lines)).type = "Some"
          THEN <<extract_ipv4_address(Head(lines)).val>> ELSE <<>>)
         \o Ipv4Texts(Tail(lines))

\* C20: after a successful listing every interface holds the addresses of
\* all its IPv4 lines in listing order, and its structured IPv4
\* configuration (address, prefix, netmask, gateway) is the one derived from
\* the first IPv4 line, with an empty gateway when there is no default
\* route; an interface without IPv4 lines has no configuration.
C20_ConfigFromFirstIpv4Line ==
    (result.called /\ result.ok) =>
        \A j \in DOMAIN interfaces :
            LET v4 == Ipv4Texts(Lookup(sys.addr_lines, interfaces[j].name).val)
            IN
            /\ interfaces[j].ipv4_addresses = v4
            /\ v4 = <<>> => interfaces[j].ipv4_config.type = "None"
            /\ v4 # <<>> =>
                  /\ interfaces[j].ipv4_config.type = "Some"
                  /\ interfaces[j].ipv4_config.val
                        = Ipv4ConfigOf(v4[1], interfaces[j].name, sys).val

---------------------------------------------------------------------------
(* Claims about the tun/tap rules of kind classification.                  *)

\* none of the rules before the tun_flags rule applies
ReachesTunRules(name, f) ==
    /\ name # N_lo
    /\ ~(name = N_docker0 \/ StartsWith(name, <<"b", "r", "-">>))
    /\ ~(StartsWith(name, <<"w", "g">>) /\ f.uevent.ok
            /\ Contains(f.uevent.val, T_wireguard))
    /\ ~StartsWith(name, <<"v", "e", "t", "h">>)
    /\ ~Contains(name, <<".">>)
    /\ ~f.bridge

\* C21: for a name that reaches the tun/tap rules, an existing tun_flags
\* marker file decides: 0x1 or 1 gives Tun, 0x2 or 2 gives Tap even against
\* the name prefix, and with any other value the interface is not classified
\* Tun or Tap by its name; the name prefix is used only without the file.
C21_PrefixOnlyWithoutMarker ==
    (result.called /\ ReachesTunRules(iface.name, sys) /\ sys.tun_flags.ok) =>
        LET flags == Trim(sys.tun_flags.val) IN
        /\ flags \in {<<"0", "x", "1">>, <<"1">>} => iface.kind = "Tun"
        /\ flags \in {<<"0", "x", "2">>, <<"2">>} => iface.kind = "Tap"
        /\ flags \notin {<<"0", "x", "1">>, <<"1">>, <<"0", "x", "2">>, <<"2">>}
              => iface.kind \notin {"Tun", "Tap"}

---------------------------------------------------------------------------
(* Claims about the process file-descriptor detector.                      *)

\* the /proc entry holds a descriptor on /dev/net/tun, and its namespace
\* link query mentions the name or could not be started
TunHolderOf(entry, name) ==
    /\ parse_u32(entry.file_name).type = "Some"
    /\ entry.fd.ok
    /\ \E k \in DOMAIN entry.fd.val : Contains(entry.fd.val[k], T_dev_net_tun)
    /\ \/ ~entry.ns_query.spawned
       \/ Contains(entry.ns_query.stdout, name)

\* C22: the process detector yields none without a tun_flags marker file;
\* otherwise it reports the first process that holds a descriptor on
\* /dev/net/tun and whose namespace link query mentions the interface or
\* could not be executed; a process whose query ran without mentioning the
\* interface is passed over and never reported.
C22_ProcessReportedOnlyIfQueryAgrees ==
    (result.called /\ Len(log) >= 3) =>
        LET o == DetectorOutcome(3) IN
        /\ ~sys.tun_flags.ok => o = NoOwner
        /\ o # NoOwner =>
              /\ sys.tun_flags.ok /\ sys.procs.ok
              /\ \E k \in DOMAIN sys.procs.val :
                    /\ TunHolderOf(sys.procs.val[k], iface.name)
                    /\ DecimalValue(sys.procs.val[k].file_name) = o.pid
                    /\ \A j \in 1..(k - 1) :
                          ~TunHolderOf(sys.procs.val[j], iface.name)
        /\ (sys.tun_flags.ok /\ sys.procs.ok /\ o = NoOwner) =>
              \A k \in DOMAIN sys.procs.val :
                  ~TunHolderOf(sys.procs.val[k], iface.name)

---------------------------------------------------------------------------
(* Claims about the container detector.                                    *)

\* the containers `docker ps` lists: the lines with at least three parts
ListedContainers ==
    LET HasThreeParts(line) == Len(line) >= 3 IN
    IF sys.docker_ps.ok THEN SelectSeq(sys.docker_ps.val, HasThreeParts)
    ELSE <<>>

\* C23: the container detector yields none for a kind other than Docker
\* bridge and veth and when docker is unavailable; for docker0 or a br-
\* name it yields the synthetic owner with id "system"; for a veth it yields
\* the only listed container when exactly one is listed, the first listed
\* container that passes the namespace heuristic when several are listed,
\* and none when no container is listed or none passes.
C23_ContainerDetectorCases ==
    result.called =>
        LET o == DetectorOutcome(1)
            listed == ListedContainers
            passing == {k \in DOMAIN listed : container_has_veth(listed[k][1], sys)}
            Owner(c) == DockerContainer(c[1], c[2], c[3])
        IN
        /\ iface.owner = o \/ o = NoOwner
        /\ iface.kind \notin {"Docker", "Veth"} => o = NoOwner
        /\ ~sys.docker_version => o = NoOwner
        /\ (iface.kind \in {"Docker", "Veth"} /\ sys.docker_version) =>
              IF iface.name = N_docker0 \/ StartsWith(iface.name, T_br_prefix)
              THEN o.type = "DockerContainer" /\ o.id = T_system
              ELSE IF Len(listed) = 0 THEN o = NoOwner
              ELSE IF Len(listed) = 1 THEN o = Owner(listed[1])
              ELSE IF passing = {} THEN o = NoOwner
              ELSE o = Owner(listed[Min(passing)])

C23_Witness ==
    /\ result.called
    /\ iface.kind = "Veth"
    /\ Len(ListedContainers) = 2
    /\ ~container_has_veth(ListedContainers[1][1], sys)
    /\ iface.owner = DockerContainer(T_def456, T_db, T_postgres)
    /\ log = <<"container">>

---------------------------------------------------------------------------
(* Claims about the event loop (SpecApp).                                  *)

\* what identifies the rows of the inventory: name, kind and owner
Rows(ifaces) ==
    [k \in DOMAIN ifaces |-> <<ifaces[k].name, ifaces[k].kind, ifaces[k].owner>>]

\* C24: through any sequence of key events remove_interface is never called
\* for a Physical or Loopback interface: the ConfirmDelete screen is shown
\* only with a selected interface of another kind, and while it is shown
\* the rows of the inventory and the selection do not change.
C24_NoRemovalOfPhysicalOrLoopback ==
    /\ [](result.called =>
            result.val.val.iface.kind \notin {"Physical", "Loopback"})
    /\ [](screen = "ConfirmDelete" =>
            /\ Selected.type = "Some"
            /\ Selected.val.kind \notin {"Physical", "Loopback"})
    /\ [][(screen = "ConfirmDelete" /\ screen' = "ConfirmDelete") =>
            /\ Rows(interfaces') = Rows(interfaces)
            /\ app'.list_state = app.list_state]_vars

C24_Witness ==
    /\ result.called /\ result.ok
    /\ result.val.val.iface.kind = "Veth"
    /\ screen = "Main"
    /\ \E k \in DOMAIN interfaces : interfaces[k].kind = "Physical"


\* C26: after any sequence of keys, refreshes and deletions, whenever the
\* inventory is non-empty the selected index is smaller than its length.
C26_SelectionInRange ==
    (interfaces # <<>> /\ app.list_state.type = "Some") =>
        app.list_state.val < Len(interfaces)

\* what tells one remove_interface call from the one before it
RemovedName(r) == IF r.val.type = "Some" THEN r.val.val.iface.name ELSE NoText

\* C27: the record removed on confirmation is the one the dialog showed
\* (same name and owner), the strategy executed is the strategy shown, and
\* while the dialog is shown no tick or key changes the names, kinds or
\* owners of the inventory or the selected index.
C27_RemovedIsWhatWasShown ==
    [][/\ RemovedName(result') # RemovedName(result) =>
            /\ strategy.type = "Some"
            /\ result'.val.val.strategy = strategy.val
            /\ result'.val.val.iface.name = iface.name
            /\ result'.val.val.iface.owner = iface.owner
       /\ (screen = "ConfirmDelete" /\ screen' = "ConfirmDelete") =>
            /\ Rows(interfaces') = Rows(interfaces)
            /\ app'.list_state = app.list_state
            /\ strategy.type = "Some" =>
                  /\ strategy' = strategy
                  /\ iface'.name = iface.name /\ iface'.owner = iface.owner]_vars

C27_Witness ==
    /\ result.called /\ result.ok
    /\ result.val.val.iface.name = N_wg0
    /\ result.val.val.strategy = "StopAndDisableService"
    /\ strategy = Some("StopAndDisableService")
    /\ iface.name = N_wg0
    /\ iface.traffic_stats # result.val.val.iface.traffic_stats

\* C28: App::run ends only because q was pressed on the main screen: it
\* never returns an error after a failed traffic read, refresh, toggle or
\* removal.
C28_RunEndsOnlyOnQuit ==
    app.run # "Running" => (app.run = "Ok" /\ app.should_quit)


---------------------------------------------------------------------------
(* Claims about the edit form.                                             *)

\* C25: whenever save_interface_config returns an error, the run-time IPv4
\* addresses of the interface are the same as before the call.
C25_SaveErrorKeepsAddresses ==
    (result.called /\ ~result.ok)
        => sys.addrs = result.val.val.addrs_before

\* C30: for every prefix length p in 0..32,
\* netmask_to_prefix(prefix_to_netmask(p)) is p; a form pre-filled from the
\* inventory and saved unchanged computes the prefix length of the
\* inventory's ipv4_config and, when the save succeeds, persists the
\* address with that prefix length.
C30_NetmaskRoundTrip ==
    /\ \A p \in 0..MaxPrefix :
         netmask_to_prefix(prefix_to_netmask(p)) = Ok(p)
    /\ (/\ result.called
        /\ iface.ipv4_config.type = "Some"
        /\ result.val.val.form = EditFormState_new(iface)
        /\ result.val.val.prefix.type = "Some")
           => /\ result.val.val.prefix.val = iface.ipv4_config.val.prefix
              /\ result.ok => sys.netplan = Some(iface.ipv4_addresses[1])

C30_Witness ==
    /\ result.called /\ result.ok
    /\ iface.ipv4_config.type = "Some"
    /\ iface.ipv4_config.val.prefix = 20
    /\ result.val.val.form = EditFormState_new(iface)
    /\ result.val.val.prefix = Some(20)
    /\ sys.netplan = Some(iface.ipv4_addresses[1])
    /\ interfaces = <<iface>>


\* C29: the container detector returns an owner only for the kinds Docker
\* bridge and Veth, the kernel-module detector only for Bridge, Vlan and
\* WireGuard, so in one detect call at most one of the two yields an owner.
C29_ContainerAndModuleExclusive ==
    /\ DetectorOutcome(1) # NoOwner => iface.kind \in {"Docker", "Veth"}
    /\ DetectorOutcome(5) # NoOwner =>
           iface.kind \in {"Bridge", "Vlan", "WireGuard"}
    /\ DetectorOutcome(1) = NoOwner \/ DetectorOutcome(5) = NoOwner
    /\ result.called =>
           /\ iface.owner.type = "DockerContainer" =>
                  iface.kind \in {"Docker", "Veth"}
           /\ iface.owner.type = "Kernel" =>
                  iface.kind \in {"Bridge", "Vlan", "WireGuard"}

C29_Witness ==
    /\ result.called
    /\ iface.kind = "Bridge"
    /\ sys.docker_version
    /\ sys.lsmod.ok
    /\ DetectorOutcome(1) = NoOwner
    /\ iface.owner = Kernel(T_bridge)
    /\ log = Detectors

====
